---------------------------- MODULE Spec2Model ----------------------------
(***************************************************************************)
(* Isopod: the kube apply engine (kube.put / kube.put_yaml / kube.delete), *)
(* the per-cluster addon driver with its rollout store, and the module     *)
(* loader, modelled as state machines.                                     *)
(***************************************************************************)
EXTENDS Integers, Sequences, FiniteSets, TLC

VARIABLES
    \* ---- kube apply engine (kubePackage) and the API server it talks to
    dryRun,      \* kubePackage.dryRun / runtime.dryrun
    force,       \* kubePackage.force
    server,      \* API server objects: name URI -> object
    reqs,        \* requests the API server observed during the last operation
    out,         \* diffs printed to stdout during the last operation
    lastErr,     \* error returned by the last builtin ("" = nil)
    lastCall,    \* the last builtin call and its arguments
    calls,       \* number of builtin calls made so far
    \* ---- rollout store (pkg/store/kube)
    cms,         \* store configmaps: name -> configmap
    nextId,      \* source of xid.New() identifiers
    storeOp,     \* the last store operation and its outcome
    \* ---- driver (main / runtime.Run / runCommand)
    cmd,         \* install | remove | list
    pc,          \* position of the driver
    clusters,    \* value returned by clusters()
    ci,          \* index of the cluster being processed
    addons,      \* addons loaded for the current cluster
    ai,          \* index of the addon being run
    rollout,     \* id of the rollout created for the current cluster
    errorReturned, \* main.errorReturned
    exitCode,    \* process exit code (-1 while running)
    hist,        \* what happened so far (history of the run)
    \* ---- module loader (pkg/loader)
    fs,          \* files on disk: path -> [loads, fails]
    loaded,      \* modulesLoader.loaded: module string -> module (or nil)
    stack,       \* anchoredLoadFn invocations in progress
    ret,         \* value being returned to the innermost invocation
    evals,       \* number of ExecFile runs so far
    lastLoad,    \* the last call of the load function
    first,       \* module string -> result of its first completed load
    topLoads,    \* number of loads made from outside any module
    \* ---- blocking builtins (kube.get / kube.exists wait, sleep) and cancellation
    ctxDone,     \* the command's context has been cancelled
    now,         \* time elapsed since the blocking builtin was called, in ticks
    bcall,       \* the blocking builtin in progress and its arguments
    bpc,         \* position inside the blocking builtin
    retryCh,     \* number of values buffered in kubeGet's retryCh (capacity 1)
    waitDone,    \* kubeGet's waitDone timer channel: nil | armed | fired
    probes,      \* GET probes made by the blocking builtin so far
    probeTimes,  \* the times at which those probes were made
    bret,        \* what the blocking builtin returned
    \* ---- the API server's own record of one addon callback
    seen,        \* requests in the order the API server observed them: call, item
    \* ---- unit test runner (RunUnitTests)
    tpath,       \* the path argument of the test command, as segments
    tglobals,    \* globals of an executed test file: name -> kind of value
    tfiles,      \* test files collected by search
    tpc,         \* position inside RunUnitTests
    tcur,        \* the test file being executed
    todo,        \* globals the range loop of exec has not visited yet
    invoked,     \* file -> name -> number of times the function was called
    results,     \* one result per executed file
    tstatus,     \* what RunUnitTests returned
    \* ---- addon install with the status spinner
    noSpin,      \* runtime.noSpin
    ipc,         \* position of the installing goroutine inside installAddonFn
    ierr,        \* what a.Install returned
    installs,    \* addons installed so far
    spinners,    \* one entry per spinMsg goroutine started
    \* ---- addon contexts (SkyCtx.Attrs maps are shared by reference)
    attrMaps,    \* the StringDict maps that exist: reference -> attributes
    addonObjs,   \* the Addon objects made by the addon builtin
    sawCtx,      \* what the last callback found in its ctx argument
    runs,        \* callbacks run so far
    \* ---- git_repository dependencies on disk
    localDir,    \* dependency -> state of its LocalDir()
    fetchOp,     \* the last Fetch and what it returned
    fetchCount   \* Fetch calls so far

kubeVars   == <<dryRun, force, server, reqs, out, lastErr, lastCall, calls>>
storeVars  == <<cms, nextId, storeOp>>
driverVars == <<cmd, pc, clusters, ci, addons, ai, rollout, errorReturned, exitCode, hist>>
loaderVars == <<fs, loaded, stack, ret, evals, lastLoad, first, topLoads>>
blockVars  == <<ctxDone, now, bcall, bpc, retryCh, waitDone, probes, probeTimes, bret>>
orderVars  == <<seen>>
testVars   == <<tpath, tglobals, tfiles, tpc, tcur, todo, invoked, results, tstatus>>
spinVars   == <<noSpin, ipc, ierr, installs, spinners>>
ctxVars    == <<attrMaps, addonObjs, sawCtx, runs>>
gitVars    == <<localDir, fetchOp, fetchCount>>
restVars   == <<blockVars, orderVars, testVars, spinVars, ctxVars, gitVars>>
vars == <<kubeVars, storeVars, driverVars, loaderVars, restVars>>

----------------------------------------------------------------------------
(* Generic helpers *)

Range(s) == {s[i] : i \in 1..Len(s)}

SeqsUpTo(S, n) == UNION {[1..k -> S] : k \in 0..n}

NonEmptySeqsUpTo(S, n) == UNION {[1..k -> S] : k \in 1..n}

\* m with key k mapped to v (maps are functions with a finite domain)
MapPut(m, k, v) == [x \in DOMAIN m \cup {k} |-> IF x = k THEN v ELSE m[x]]

MapDel(m, k) == [x \in DOMAIN m \ {k} |-> m[x]]

EmptyMap == [x \in {} |-> 0]

----------------------------------------------------------------------------
(* Bounds *)

MaxCalls == 2      \* builtin calls per engine run
MaxItems == 2      \* items in one data list

----------------------------------------------------------------------------
(* Kubernetes objects as the engine sees them *)

NoObj == [kind |-> "none"]

NoRef == [apiGroup |-> "", kind |-> "", name |-> ""]

RbacGroup == "rbac.authorization.k8s.io"

Ref(n, k) == [apiGroup |-> RbacGroup, kind |-> k, name |-> n]

\* roleRef values: each differs from the first in one field
RoleRefs == {Ref("foo", "ClusterRole"), Ref("bar", "ClusterRole"), Ref("foo", "Role")}

Ports == {0, 41, 42}

NoLabels == EmptyMap

LabelSets == {NoLabels, MapPut(NoLabels, "app", "web"), MapPut(NoLabels, "heritage", "helm")}

Svc(n, ns, port, ls) ==
    [kind |-> "Service", name |-> n, namespace |-> ns, labels |-> ls, ann |-> "",
     port |-> port, clusterIP |-> "", roleRef |-> NoRef, rv |-> ""]

Crb(n, ns, ref, ls) ==
    [kind |-> "ClusterRoleBinding", name |-> n, namespace |-> ns, labels |-> ls, ann |-> "",
     port |-> 0, clusterIP |-> "", roleRef |-> ref, rv |-> ""]

Pod(n, ns, ls) ==
    [kind |-> "Pod", name |-> n, namespace |-> ns, labels |-> ls, ann |-> "",
     port |-> 0, clusterIP |-> "", roleRef |-> NoRef, rv |-> ""]

\* a custom resource no discovery document knows
Widget(n, ns) ==
    [kind |-> "Widget", name |-> n, namespace |-> ns, labels |-> NoLabels, ann |-> "",
     port |-> 0, clusterIP |-> "", roleRef |-> NoRef, rv |-> ""]

\* the addon context serialised into the context annotation
CtxJSON == "{\"env\":\"test\"}"

----------------------------------------------------------------------------
(* Resource descriptors and URL composition *)

\* What API discovery serves: kind -> group, version, plural, scope
Discovery ==
    [k \in {"Service", "Pod", "ClusterRoleBinding"} |->
        CASE k = "Service" -> [group |-> "", version |-> "v1", resource |-> "services", root |-> FALSE]
          [] k = "Pod" -> [group |-> "", version |-> "v1", resource |-> "pods", root |-> FALSE]
          [] OTHER -> [group |-> RbacGroup, version |-> "v1", resource |-> "clusterrolebindings", root |-> TRUE]]

\* the group declared by a YAML document of this kind
DeclaredGroup(kind) ==
    IF kind \in DOMAIN Discovery THEN Discovery[kind].group ELSE "example.com"

guessGVKFromMsg(msg) ==
    [group   |-> IF msg.kind \in {"Service", "Pod"} THEN "" ELSE "rbac",
     version |-> "v1",
     kind    |-> msg.kind]

\* restmapper RESTMapping: is there a binding for this group and kind
RESTMapping(group, kind) ==
    kind \in DOMAIN Discovery /\ Discovery[kind].group = group

validate(r) ==
    IF r.gvk.kind = "Namespace" /\ r.namespace # "" /\ r.name # r.namespace
    THEN "NamespaceNameMismatch" ELSE ""

newResourceForMsg(name, namespace, apiGroup, subresource, msg) ==
    LET guess == guessGVKFromMsg(msg)
        g == IF apiGroup # "" THEN apiGroup ELSE guess.group
    IN IF ~RESTMapping(g, guess.kind)
       THEN [err |-> "NoKindMatch", r |-> NoObj]
       ELSE LET r == [gvk |-> [group |-> g, version |-> Discovery[guess.kind].version, kind |-> guess.kind],
                      name |-> name, namespace |-> namespace,
                      resource |-> Discovery[guess.kind].resource,
                      subresource |-> subresource, clusterScoped |-> FALSE]
            IN [err |-> validate(r), r |-> r]

newResourceForKind(name, namespace, subresource, kind) ==
    IF ~RESTMapping(DeclaredGroup(kind), kind)
    THEN [err |-> "NoKindMatch", r |-> NoObj]
    ELSE LET root == Discovery[kind].root
             r == [gvk |-> [group |-> DeclaredGroup(kind), version |-> Discovery[kind].version, kind |-> kind],
                   name |-> name, namespace |-> IF root THEN "" ELSE namespace,
                   resource |-> Discovery[kind].resource,
                   subresource |-> subresource, clusterScoped |-> root]
         IN [err |-> validate(r), r |-> r]

\* kube.delete / kube.get resolve by resource plural
ResourceKinds ==
    [p \in {"service", "pod", "clusterrolebinding"} |->
        CASE p = "service" -> "Service" [] p = "pod" -> "Pod" [] OTHER -> "ClusterRoleBinding"]

newResource(name, namespace, apiGroup, resource, subresource) ==
    IF resource \notin DOMAIN ResourceKinds
       \/ (apiGroup # "" /\ ~RESTMapping(apiGroup, ResourceKinds[resource]))
    THEN [err |-> "NoKindMatch", r |-> NoObj]
    ELSE LET kind == ResourceKinds[resource]
             r == [gvk |-> [group |-> Discovery[kind].group, version |-> Discovery[kind].version, kind |-> kind],
                   name |-> name, namespace |-> namespace,
                   resource |-> Discovery[kind].resource,
                   subresource |-> subresource, clusterScoped |-> FALSE]
         IN [err |-> validate(r), r |-> r]

resourceSegments(r) ==
    LET s1 == IF r.gvk.group = "" THEN <<"/api", r.gvk.version>>
              ELSE <<"/apis", r.gvk.group, r.gvk.version>>
        s2 == IF r.namespace # "" /\ ~r.clusterScoped
              THEN s1 \o <<"namespaces", r.namespace>> ELSE s1
    IN IF r.resource # "" THEN Append(s2, r.resource) ELSE s2

Path(r) == resourceSegments(r)

PathWithName(r) == IF r.name # "" THEN Append(Path(r), r.name) ELSE Path(r)

PathWithSubresource(r) ==
    IF r.subresource # "" THEN Append(PathWithName(r), r.subresource) ELSE PathWithName(r)

\* the URL the dynamic client builds from GroupVersionResource, namespace and name
DynPath(r, withName) ==
    LET s1 == IF r.gvk.group = "" THEN <<"/api", r.gvk.version>>
              ELSE <<"/apis", r.gvk.group, r.gvk.version>>
        s2 == IF r.namespace # "" THEN s1 \o <<"namespaces", r.namespace>> ELSE s1
        s3 == Append(s2, r.resource)
    IN IF withName THEN Append(s3, r.name) ELSE s3

----------------------------------------------------------------------------
(* The API server as the engine's HTTP and dynamic clients see it.          *)
(* An engine state S is [server, reqs, out, err]; a fault F says which      *)
(* request (if any) the server rejects and whether a deleted object lingers *)
(* (foreground deletion keeps the object until its dependents are gone).    *)

NoFault == [kind |-> "none", lingers |-> FALSE]

Faults == [kind : {"none", "get", "write", "delete"}, lingers : BOOLEAN]

\* a request as the API server observed and answered it
Req(method, uri, policy, body, i, status) ==
    [method |-> method, uri |-> uri, policy |-> policy, body |-> body, item |-> i,
     status |-> status]

Mutating(q) == q.method \in {"POST", "PUT", "DELETE"}

\* the name URI a write to uri lands on (a subresource write lands on its parent)
ParentKey(uri, r) ==
    IF r.subresource # "" /\ uri = PathWithSubresource(r) THEN PathWithName(r) ELSE uri

\* POST to a collection / PUT to a name as the API server serves them
serverWrite(S, method, uri, obj, r, i, F) ==
    LET key == IF method = "POST" THEN Append(uri, obj.name) ELSE ParentKey(uri, r)
        status == IF F.kind = "write" THEN 500
                  ELSE IF method = "POST" /\ key \in DOMAIN S.server THEN 409
                  ELSE IF method = "PUT" /\ key \notin DOMAIN S.server THEN 404
                  ELSE IF method = "POST" THEN 201 ELSE 200
        S1 == [S EXCEPT !.reqs = Append(@, Req(method, uri, "", obj, i, status))]
    IN IF status >= 300 THEN [S1 EXCEPT !.err = "ServerError"]
       ELSE [S1 EXCEPT !.server = MapPut(@, key, obj)]

\* printUnifiedDiff: one rendered diff (header plus live/head) per object
printUnifiedDiff(S, live, obj, kind, name, namespace) ==
    [S EXCEPT !.out = Append(@, [kind |-> kind, name |-> name, namespace |-> namespace,
                                 live |-> live, head |-> obj])]

\* kubePeek: GET on url; 404 is "not found", any other failure is an error
kubePeek(S, url, i, F) ==
    LET status == IF F.kind = "get" THEN 500 ELSE IF url \in DOMAIN S.server THEN 200 ELSE 404
        got == IF status = 200 THEN S.server[url] ELSE NoObj
        S1 == [S EXCEPT !.reqs = Append(@, Req("GET", url, "", got, i, status))]
    IN IF status = 500 THEN [S |-> [S1 EXCEPT !.err = "ServerError"], found |-> FALSE, live |-> NoObj]
       ELSE IF status = 200 THEN [S |-> S1, found |-> TRUE, live |-> S.server[url]]
       ELSE [S |-> S1, found |-> FALSE, live |-> NoObj]

----------------------------------------------------------------------------
(* kubePackage: metadata policy, merge, immutability, update, delete *)

\* setMetadata that overwrites name and namespace without comparing them
setMetadataUnchecked(name, namespace, obj) ==
    LET o1 == [obj EXCEPT !.name = name]
        o2 == IF namespace # "" THEN [o1 EXCEPT !.namespace = namespace] ELSE o1
    IN [err |-> "",
        obj |-> [o2 EXCEPT !.labels = MapPut(@, "heritage", "isopod"), !.ann = CtxJSON]]

\* setMetadata that leaves a heritage label the object already carries
setMetadataKeepsHeritage(name, namespace, obj) ==
    IF obj.name # "" /\ obj.name # name
    THEN [err |-> "NameMismatch", obj |-> obj]
    ELSE LET o1 == [obj EXCEPT !.name = name]
         IN IF namespace # "" /\ o1.namespace # "" /\ o1.namespace # namespace
            THEN [err |-> "NamespaceMismatch", obj |-> o1]
            ELSE LET o2 == IF namespace # "" THEN [o1 EXCEPT !.namespace = namespace] ELSE o1
                 IN [err |-> "",
                     obj |-> [o2 EXCEPT !.labels = IF "heritage" \in DOMAIN @ THEN @
                                                  ELSE MapPut(@, "heritage", "isopod"),
                                        !.ann = CtxJSON]]

\* setMetadata: name/namespace validation, heritage label, context annotation
setMetadata(name, namespace, obj) ==
    IF obj.name # "" /\ obj.name # name
    THEN [err |-> "NameMismatch", obj |-> obj]
    ELSE LET o1 == [obj EXCEPT !.name = name]
         IN IF namespace # "" /\ o1.namespace # "" /\ o1.namespace # namespace
            THEN [err |-> "NamespaceMismatch", obj |-> o1]
            ELSE LET o2 == IF namespace # "" THEN [o1 EXCEPT !.namespace = namespace] ELSE o1
                 IN [err |-> "",
                     obj |-> [o2 EXCEPT !.labels = MapPut(@, "heritage", "isopod"),
                                        !.ann = CtxJSON]]

ImmutablePort == "ImmutableUpdate:.spec.healthCheckNodePort"

ImmutableRef == "ImmutableUpdate:roleRef"

\* errors.Is(errors.Unwrap(err), ErrUpdateImmutable)
IsImmutable(err) == err \in {ImmutablePort, ImmutableRef}

\* mergeObjects: patch the desired object with what the cluster must retain;
\* obj is patched in place, so what was written before an error stays written
mergeObjects(live, obj) ==
    LET isSvc == live.kind = "Service"
        o1 == IF isSvc THEN [obj EXCEPT !.clusterIP = live.clusterIP] ELSE obj
        portClash == isSvc /\ obj.port # 0 /\ live.port # 0 /\ obj.port # live.port
        o2 == IF isSvc /\ ~portClash THEN [o1 EXCEPT !.port = live.port] ELSE o1
        refClash == /\ live.kind = "ClusterRoleBinding"
                    /\ \/ live.roleRef.apiGroup # obj.roleRef.apiGroup
                       \/ live.roleRef.kind # obj.roleRef.kind
                       \/ live.roleRef.name # obj.roleRef.name
        o3 == IF live.rv # "" THEN [o2 EXCEPT !.rv = live.rv] ELSE o2
    IN IF portClash THEN [err |-> ImmutablePort, obj |-> o1]
       ELSE IF refClash THEN [err |-> ImmutableRef, obj |-> o2]
       ELSE [err |-> "", obj |-> o3]

\* kubeDelete without the dry-run return
kubeDeleteAlways(S, r, foreground, i, F) ==
    LET uri == DynPath(r, TRUE)
        pol == IF foreground THEN "Foreground" ELSE "Background"
        status == IF F.kind = "delete" THEN 500
                  ELSE IF uri \notin DOMAIN S.server THEN 404 ELSE 200
        S1  == [S EXCEPT !.reqs = Append(@, Req("DELETE", uri, pol, NoObj, i, status))]
    IN IF status >= 300 THEN [S1 EXCEPT !.err = "ServerError"]
       ELSE IF F.lingers THEN S1
       ELSE [S1 EXCEPT !.server = MapDel(@, uri)]

\* kubeDelete: DELETE through the dynamic client; a no-op in dry-run
kubeDelete(S, r, foreground, i, F) ==
    IF dryRun THEN S
    ELSE LET uri == DynPath(r, TRUE)
             pol == IF foreground THEN "Foreground" ELSE "Background"
             status == IF F.kind = "delete" THEN 500
                       ELSE IF uri \notin DOMAIN S.server THEN 404 ELSE 200
             S1  == [S EXCEPT !.reqs = Append(@, Req("DELETE", uri, pol, NoObj, i, status))]
         IN IF status >= 300 THEN [S1 EXCEPT !.err = "ServerError"]
            ELSE [S1 EXCEPT !.server = IF F.lingers THEN @ ELSE MapDel(@, uri)]

\* maybeRecreate that deletes whether or not force is set
maybeRecreateUnasked(S, live, obj, r, i, F) ==
    LET mg == mergeObjects(live, obj)
    IN IF IsImmutable(mg.err)
       THEN [S |-> kubeDelete(S, r, TRUE, i, F), obj |-> mg.obj]
       ELSE [S |-> [S EXCEPT !.err = mg.err], obj |-> mg.obj]

\* maybeRecreate: merge; an immutable update is an error unless force is set,
\* in which case the live object is deleted with foreground propagation
maybeRecreate(S, live, obj, r, i, F) ==
    LET mg == mergeObjects(live, obj)
    IN IF IsImmutable(mg.err) /\ force
       THEN [S |-> kubeDelete(S, r, TRUE, i, F), obj |-> mg.obj]
       ELSE [S |-> [S EXCEPT !.err = mg.err], obj |-> mg.obj]

\* kubeUpdate that never resets the URI for a subresource update
kubeUpdateNameOnly(S, r, msg, i, F) ==
    LET pk == kubePeek(S, PathWithName(r), i, F)
    IN IF pk.S.err # "" THEN pk.S
       ELSE IF ~pk.found /\ r.subresource # ""
       THEN [pk.S EXCEPT !.err = "parent resource does not exist"]
       ELSE LET rc == IF pk.found THEN maybeRecreate(pk.S, pk.live, msg, r, i, F)
                      ELSE [S |-> pk.S, obj |-> msg]
                method == IF pk.found THEN "PUT" ELSE "POST"
                uri == IF pk.found THEN PathWithName(r) ELSE Path(r)
            IN IF rc.S.err # "" THEN rc.S
               ELSE IF dryRun
               THEN printUnifiedDiff(rc.S, pk.live, rc.obj, r.gvk.kind, r.name, r.namespace)
               ELSE serverWrite(rc.S, method, uri, rc.obj, r, i, F)

\* kubeUpdate: probe, then create (POST) or overwrite (PUT)
kubeUpdate(S, r, msg, i, F) ==
    LET pk == kubePeek(S, PathWithName(r), i, F)
    IN IF pk.S.err # "" THEN pk.S
       ELSE IF ~pk.found /\ r.subresource # ""
       THEN [pk.S EXCEPT !.err = "parent resource does not exist"]
       ELSE LET rc == IF pk.found THEN maybeRecreate(pk.S, pk.live, msg, r, i, F)
                      ELSE [S |-> pk.S, obj |-> msg]
                method == IF pk.found THEN "PUT" ELSE "POST"
                uri == IF pk.found THEN PathWithSubresource(r) ELSE Path(r)
            IN IF rc.S.err # "" THEN rc.S
               ELSE IF dryRun
               THEN printUnifiedDiff(rc.S, pk.live, rc.obj, r.gvk.kind, r.name, r.namespace)
               ELSE serverWrite(rc.S, method, uri, rc.obj, r, i, F)

\* kubeUpdateYaml: probe, merge, then Update or Create through the dynamic client
kubeUpdateYaml(S, r, obj, i, F) ==
    LET pk == kubePeek(S, PathWithName(r), i, F)
        mg == IF pk.found THEN mergeObjects(pk.live, obj) ELSE [err |-> "", obj |-> obj]
    IN IF pk.S.err # "" THEN pk.S
       ELSE IF mg.err # "" THEN [pk.S EXCEPT !.err = mg.err]
       ELSE IF dryRun
       THEN printUnifiedDiff(pk.S, pk.live, mg.obj, r.gvk.kind, r.name, r.namespace)
       ELSE IF pk.found
       THEN serverWrite(pk.S, "PUT", DynPath(r, TRUE), mg.obj, r, i, F)
       ELSE serverWrite(pk.S, "POST", DynPath(r, FALSE), mg.obj, r, i, F)

\* nameAndNamespace: the document's own name and namespace win over the arguments
nameAndNamespace(name, namespace, obj) ==
    [name |-> IF obj.name # "" THEN obj.name ELSE name,
     namespace |-> IF obj.namespace # "" THEN obj.namespace ELSE namespace]

----------------------------------------------------------------------------
(* Builtin entry points: each runs its whole data list, stopping at the    *)
(* first error. failAt names the item whose request the server rejects.    *)

FaultAt(i, failAt, F) == IF i = failAt THEN F ELSE [F EXCEPT !.kind = "none"]

Start(srv) == [server |-> srv, reqs |-> <<>>, out |-> <<>>, err |-> ""]

RECURSIVE putItemsBackwards(_, _, _, _, _, _, _, _, _)
\* a kubePutFn loop that walks the data list from its last item
putItemsBackwards(S, name, namespace, apiGroup, subresource, data, i, failAt, F) ==
    IF i > Len(data) THEN S
    ELSE LET k == Len(data) + 1 - i
             sm == setMetadata(name, namespace, data[k])
             nr == newResourceForMsg(name, namespace, apiGroup, subresource, data[k])
         IN IF sm.err # "" THEN [S EXCEPT !.err = sm.err]
            ELSE IF nr.err # "" THEN [S EXCEPT !.err = nr.err]
            ELSE LET S1 == kubeUpdate(S, nr.r, sm.obj, k, FaultAt(k, failAt, F))
                 IN IF S1.err # "" THEN S1
                    ELSE putItemsBackwards(S1, name, namespace, apiGroup, subresource, data, i + 1, failAt, F)

RECURSIVE putItems(_, _, _, _, _, _, _, _, _)
\* the loop of kubePutFn from item i on
putItems(S, name, namespace, apiGroup, subresource, data, i, failAt, F) ==
    IF i > Len(data) THEN S
    ELSE LET sm == setMetadata(name, namespace, data[i])
             nr == newResourceForMsg(name, namespace, apiGroup, subresource, data[i])
         IN IF sm.err # "" THEN [S EXCEPT !.err = sm.err]
            ELSE IF nr.err # "" THEN [S EXCEPT !.err = nr.err]
            ELSE LET S1 == kubeUpdate(S, nr.r, sm.obj, i, FaultAt(i, failAt, F))
                 IN IF S1.err # "" THEN S1
                    ELSE putItems(S1, name, namespace, apiGroup, subresource, data, i + 1, failAt, F)

kubePutFn(srv, name, namespace, apiGroup, subresource, data, failAt, F) ==
    putItems(Start(srv), name, namespace, apiGroup, subresource, data, 1, failAt, F)

RECURSIVE applyItems(_, _, _, _, _, _, _)
\* the loop of Apply from item i on; name and namespace are the loop's variables
applyItems(S, name, namespace, data, i, failAt, F) ==
    IF i > Len(data) THEN S
    ELSE LET nn == nameAndNamespace(name, namespace, data[i])
             nr == newResourceForKind(nn.name, nn.namespace, "", data[i].kind)
             ns == IF nr.err = "" /\ nr.r.clusterScoped THEN "" ELSE nn.namespace
             sm == setMetadata(nn.name, ns, data[i])
         IN IF nr.err = "NoKindMatch" /\ dryRun
            THEN printUnifiedDiff(S, NoObj, data[i], data[i].kind, nn.name, nn.namespace)
            ELSE IF nr.err # "" THEN [S EXCEPT !.err = nr.err]
            ELSE IF sm.err # "" THEN [S EXCEPT !.err = sm.err]
            ELSE LET S1 == kubeUpdateYaml(S, nr.r, sm.obj, i, FaultAt(i, failAt, F))
                 IN IF S1.err # "" THEN S1
                    ELSE applyItems(S1, nn.name, ns, data, i + 1, failAt, F)

\* kubePutYamlFn -> Apply
kubePutYamlFn(srv, name, namespace, data, failAt, F) ==
    applyItems(Start(srv), name, namespace, data, 1, failAt, F)

\* kubeDeleteFn: <resource>="<namespace>/<name>", api_group, foreground
kubeDeleteFn(srv, resource, namespace, name, apiGroup, foreground, F) ==
    LET nr == newResource(name, namespace, apiGroup, resource, "")
    IN IF nr.err # "" THEN [Start(srv) EXCEPT !.err = nr.err]
       ELSE kubeDelete(Start(srv), nr.r, foreground, 0, F)

----------------------------------------------------------------------------
(* What scripts pass to the builtins, and the clusters they run against *)

ArgName == "foo"

ArgNamespaces == {"", "bar"}

ApiGroups == {"", RbacGroup}

Subresources == {"", "status"}

\* namespace, api_group and subresource arguments of kube.put
PutArgs ==
    {[ns |-> "bar", ag |-> ag, sub |-> sub] : ag \in ApiGroups, sub \in Subresources}
    \cup {[ns |-> "", ag |-> "", sub |-> ""]}

\* typed messages: every payload with blank metadata, and every name,
\* namespace and label set on one payload
Items ==
    {Svc("", "", p, NoLabels) : p \in Ports}
    \cup {Crb("", "", ref, NoLabels) : ref \in RoleRefs}
    \cup {Pod("", "", NoLabels)}
    \cup {Svc(n, ns, 0, NoLabels) : n \in {"", "foo", "baz"}, ns \in {"", "bar", "qux"}}
    \cup {Svc("", "", 0, ls) : ls \in LabelSets}

\* YAML documents: the typed kinds plus one kind discovery does not know
Docs ==
    {Svc("", "", p, NoLabels) : p \in {0, 42}}
    \cup {Crb("", "", ref, NoLabels) : ref \in {Ref("foo", "ClusterRole"), Ref("bar", "ClusterRole")}}
    \cup {Svc("foo", "bar", 0, NoLabels), Svc("baz", "qux", 0, NoLabels), Widget("foo", "bar")}

\* data lists: any single item, or several items out of a short list
ListItems == {Svc("", "", 42, NoLabels), Pod("", "", NoLabels), Svc("baz", "", 0, NoLabels)}

PutLists == {<<x>> : x \in Items} \cup (NonEmptySeqsUpTo(ListItems, MaxItems) \ {<<x>> : x \in ListItems})

ListDocs == {Svc("", "", 42, NoLabels), Svc("baz", "qux", 0, NoLabels), Widget("foo", "bar")}

YamlLists == {<<x>> : x \in Docs} \cup (NonEmptySeqsUpTo(ListDocs, MaxItems) \ {<<x>> : x \in ListDocs})

\* live objects carry what the cluster assigned
Live(obj, ip, rv) == [obj EXCEPT !.name = "foo", !.clusterIP = ip, !.rv = rv,
                                 !.labels = MapPut(@, "heritage", "isopod"), !.ann = CtxJSON]

SvcURI == <<"/api", "v1", "namespaces", "bar", "services", "foo">>

CrbURI == <<"/apis", RbacGroup, "v1", "namespaces", "bar", "clusterrolebindings", "foo">>

CrbRootURI == <<"/apis", RbacGroup, "v1", "clusterrolebindings", "foo">>

LiveSvc(port) == Live(Svc("foo", "bar", port, NoLabels), "10.0.0.1", "7")

LiveCrb(ns) == Live(Crb("foo", ns, Ref("foo", "ClusterRole"), NoLabels), "", "7")

\* clusters the engine may meet: empty, or holding earlier versions of the objects
InitServers ==
    {EmptyMap,
     MapPut(MapPut(EmptyMap, SvcURI, LiveSvc(41)), CrbURI, LiveCrb("bar")),
     MapPut(MapPut(EmptyMap, SvcURI, LiveSvc(0)), CrbRootURI, LiveCrb(""))}

----------------------------------------------------------------------------
(* Engine steps: one builtin call each *)

NoCall == [fn |-> "none"]

\* the engine's variables after a builtin returned engine state S
Returned(S, call) ==
    /\ server' = S.server
    /\ reqs' = S.reqs
    /\ out' = S.out
    /\ lastErr' = S.err
    /\ lastCall' = call
    /\ calls' = calls + 1
    /\ UNCHANGED <<dryRun, force>>

FaultChoices(n) ==
    {[failAt |-> 0, F |-> [kind |-> "none", lingers |-> l]] : l \in BOOLEAN}
    \cup {[failAt |-> k, F |-> [kind |-> f, lingers |-> FALSE]] :
            k \in 1..n, f \in {"get", "write", "delete"}}

DoPut(args, lists, faults) ==
    \E a \in args, data \in lists :
      \E fc \in {x \in FaultChoices(Len(data)) : x.F \in faults} :
        Returned(kubePutFn(server, ArgName, a.ns, a.ag, a.sub, data, fc.failAt, fc.F),
                 [fn |-> "put", name |-> ArgName, namespace |-> a.ns, apiGroup |-> a.ag,
                  subresource |-> a.sub, data |-> data])

DoPutYaml(namespaces, lists, faults) ==
    \E ns \in namespaces, data \in lists :
      \E fc \in {x \in FaultChoices(Len(data)) : x.F \in faults} :
        Returned(kubePutYamlFn(server, ArgName, ns, data, fc.failAt, fc.F),
                 [fn |-> "put_yaml", name |-> ArgName, namespace |-> ns, apiGroup |-> "",
                  subresource |-> "", data |-> data])

DoDelete(resources, namespaces, groups, faults) ==
    \E res \in resources, ns \in namespaces, ag \in groups, fg \in BOOLEAN,
       F \in {NoFault, [kind |-> "delete", lingers |-> FALSE], [kind |-> "none", lingers |-> TRUE]}
            \cap faults :
        Returned(kubeDeleteFn(server, res, ns, ArgName, ag, fg, F),
                 [fn |-> "delete", name |-> ArgName, namespace |-> ns, apiGroup |-> ag,
                  subresource |-> "", data |-> <<>>,
                  resource |-> res, foreground |-> fg])

KubeInit ==
    /\ dryRun \in BOOLEAN
    /\ force \in BOOLEAN
    /\ server \in InitServers
    /\ reqs = <<>>
    /\ out = <<>>
    /\ lastErr = ""
    /\ lastCall = NoCall
    /\ calls = 0

StoreIdle == cms = EmptyMap /\ nextId = 1 /\ storeOp = [op |-> "none"]

DriverIdle ==
    /\ cmd = "none" /\ pc = "idle" /\ clusters = <<>> /\ ci = 0 /\ addons = <<>> /\ ai = 0
    /\ rollout = "" /\ errorReturned = FALSE /\ exitCode = -1 /\ hist = [x \in {} |-> 0]

LoaderIdle ==
    /\ fs = EmptyMap /\ loaded = EmptyMap /\ stack = <<>> /\ ret = [kind |-> "none"]
    /\ evals = 0 /\ lastLoad = [kind |-> "none"] /\ first = EmptyMap /\ topLoads = 0

\* no blocking builtin is in progress and the context is live
BlockIdle ==
    /\ ctxDone = FALSE /\ now = 0 /\ bcall = [fn |-> "none"] /\ bpc = "idle"
    /\ retryCh = 0 /\ waitDone = "nil" /\ probes = 0 /\ probeTimes = <<>>
    /\ bret = [kind |-> "none"]

OrderIdle == seen = <<>>

TestIdle ==
    /\ tpath = <<>> /\ tglobals = <<>> /\ tfiles = {} /\ tpc = "idle" /\ tcur = <<>>
    /\ todo = {} /\ invoked = <<>> /\ results = {} /\ tstatus = "none"

SpinIdle ==
    /\ noSpin = FALSE /\ ipc = "idle" /\ ierr = "" /\ installs = 0 /\ spinners = <<>>

CtxIdle == attrMaps = <<>> /\ addonObjs = <<>> /\ sawCtx = [addon |-> 0] /\ runs = 0

GitIdle == localDir = <<>> /\ fetchOp = [dep |-> ""] /\ fetchCount = 0

RestIdle == BlockIdle /\ OrderIdle /\ TestIdle /\ SpinIdle /\ CtxIdle /\ GitIdle

\* a builtin can be called when the script is between calls
CanCall == calls < MaxCalls /\ lastCall = NoCall

KubePut == CanCall /\ DoPut(PutArgs, PutLists, Faults) /\ UNCHANGED <<storeVars, driverVars, loaderVars, restVars>>

KubePutYaml == CanCall /\ DoPutYaml(ArgNamespaces, YamlLists, Faults) /\ UNCHANGED <<storeVars, driverVars, loaderVars, restVars>>

KubeDelete == CanCall /\ DoDelete(DOMAIN ResourceKinds \cup {"widget"}, ArgNamespaces, ApiGroups, Faults)
              /\ UNCHANGED <<storeVars, driverVars, loaderVars, restVars>>

\* the builtin's result is consumed: what the last call did is no longer observed
Forget ==
    /\ reqs' = <<>> /\ out' = <<>> /\ lastErr' = "" /\ lastCall' = NoCall
    /\ UNCHANGED <<dryRun, force, server, calls>>

\* the caller goes on to its next call
KubeResume == lastCall # NoCall /\ Forget /\ UNCHANGED <<storeVars, driverVars, loaderVars, restVars>>

InitKube == KubeInit /\ StoreIdle /\ DriverIdle /\ LoaderIdle /\ RestIdle

NextKube == KubePut \/ KubePutYaml \/ KubeDelete \/ KubeResume

SpecKube == InitKube /\ [][NextKube]_vars

----------------------------------------------------------------------------
(* Properties of the apply engine *)

Butlast(u) == SubSeq(u, 1, Len(u) - 1)

\* position j holds an existence probe that found a live object (its body)
FoundProbe(j) == reqs[j].method = "GET" /\ reqs[j].status = 200

\* the desired item changes a field the live object cannot change in place
ImmutableChange(live, want) ==
    \/ /\ live.kind = "ClusterRoleBinding"
       /\ want.roleRef # live.roleRef
    \/ /\ live.kind = "Service"
       /\ want.port # 0 /\ live.port # 0 /\ want.port # live.port

\* the probe at position j found an object that item reqs[j].item cannot update in place
ImmutableProbe(j) ==
    /\ FoundProbe(j)
    /\ ImmutableChange(reqs[j].body, lastCall.data[reqs[j].item])

\* C2: for every item written by kube.put, a probe answered 404 is followed by
\* a POST to the collection URI, and any other probe by a PUT to the name URI
\* (name/subresource URI when a subresource is set).
C2_CreateVsUpdate ==
    lastCall.fn = "put" =>
      \A k \in 1..Len(reqs) :
        reqs[k].method \in {"POST", "PUT"} =>
          \E j \in 1..(k - 1) :
            /\ reqs[j].method = "GET" /\ reqs[j].item = reqs[k].item
            /\ reqs[j].uri[Len(reqs[j].uri)] = lastCall.name
            /\ IF reqs[j].status = 404
               THEN reqs[k].method = "POST" /\ reqs[k].uri = Butlast(reqs[j].uri)
               ELSE /\ reqs[k].method = "PUT"
                    /\ reqs[k].uri = IF lastCall.subresource # ""
                                     THEN Append(reqs[j].uri, lastCall.subresource)
                                     ELSE reqs[j].uri

\* one kube.put call that created one item and updated a subresource of none,
\* and updated another: both branches taken
C2_Witness ==
    /\ lastCall.fn = "put" /\ lastErr = ""
    /\ \E k \in 1..Len(reqs) : reqs[k].method = "POST" /\ reqs[k].status = 201
    /\ \E k \in 1..Len(reqs) : reqs[k].method = "PUT" /\ reqs[k].status = 200

C2_WitnessSub ==
    /\ lastCall.fn = "put" /\ lastErr = "" /\ lastCall.subresource # ""
    /\ \E k \in 1..Len(reqs) : reqs[k].method = "PUT" /\ reqs[k].status = 200

\* C3 (as claimed): with force set and not in dry-run, a kube.put that changes
\* an immutable field of a live object makes the server observe a foreground
\* DELETE of the live object and then a POST that creates it (stated for
\* puts of the object itself, with no subresource).
C3_ForceDeleteThenPost ==
    (lastCall.fn = "put" /\ lastCall.subresource = "" /\ force /\ ~dryRun) =>
      \A j \in 1..Len(reqs) :
        ImmutableProbe(j) =>
          /\ j + 1 <= Len(reqs)
          /\ reqs[j + 1].method = "DELETE" /\ reqs[j + 1].policy = "Foreground"
          /\ reqs[j + 1].uri = reqs[j].uri
          /\ reqs[j + 1].status = 200 =>
               /\ j + 2 <= Len(reqs)
               /\ reqs[j + 2].method = "POST"
               /\ reqs[j + 2].uri = Butlast(reqs[j].uri)

\* C4: without force, a kube.put that changes an immutable field of a live
\* object fails with ImmutableUpdate naming the attribute, and the server
\* sees no DELETE, PUT or POST for that object.
C4_ImmutableWithoutForce ==
    (lastCall.fn = "put" /\ ~force) =>
      \A j \in 1..Len(reqs) :
        ImmutableProbe(j) =>
          /\ lastErr = IF reqs[j].body.kind = "Service"
                       THEN ImmutablePort ELSE ImmutableRef
          /\ \A k \in 1..Len(reqs) : reqs[k].item = reqs[j].item => ~Mutating(reqs[k])
          /\ server[reqs[j].uri] = reqs[j].body

C4_Witness ==
    /\ lastCall.fn = "put" /\ ~force /\ ~dryRun
    /\ \E j \in 1..Len(reqs) : ImmutableProbe(j) /\ reqs[j].item = 2

----------------------------------------------------------------------------
(* Rollout store kept in ConfigMaps of one cluster                         *)

MaxIds == 3        \* xids one store may draw

StoreNamespace == "default"

CmPath == <<"/api", "v1", "namespaces", StoreNamespace, "configmaps">>

NoName == <<>>

\* xid.New(): the n-th unique id
xid(n) == ToString(n)

RolloutName(n) == <<"rollout", xid(n)>>

RunName(addon, n) == <<addon, "run", xid(n)>>

LiveName == <<"rollout", "live">>

LiveLabels == MapPut(EmptyMap, "rollout", "live")

ConfigMap(labels, data, owner) == [labels |-> labels, data |-> data, owner |-> owner]

\* state threaded through one store operation
StoreStart(c, n) == [cms |-> c, nextId |-> n, reqs |-> <<>>, err |-> "", id |-> NoName]

\* one API request of the clientset; fail names the request the server rejects
storeReq(T, method, uri, k, fail, okStatus) ==
    LET status == IF k = fail THEN 500 ELSE okStatus
        T1 == [T EXCEPT !.reqs = Append(@, Req(method, uri, "", NoObj, k, status))]
    IN IF status >= 300 THEN [T1 EXCEPT !.err = IF status = 500 THEN "ServerError"
                                                 ELSE IF status = 404 THEN "NotFound"
                                                 ELSE "AlreadyExists"]
       ELSE T1

\* ConfigMaps the list of CompleteRollout selects
livePointers(c) ==
    {n \in DOMAIN c : n = LiveName /\ "rollout" \in DOMAIN c[n].labels
                      /\ c[n].labels["rollout"] = "live"}

CreateRollout(T, fail) ==
    LET name == RolloutName(T.nextId)
        T1 == storeReq([T EXCEPT !.nextId = @ + 1], "POST", CmPath, 1, fail, 201)
    IN IF T1.err # "" THEN T1
       ELSE [T1 EXCEPT !.cms = MapPut(@, name, ConfigMap(EmptyMap, EmptyMap, NoName)),
                       !.id = name]

PutAddonRun(T, id, addon, fail) ==
    LET T1 == storeReq(T, "GET", Append(CmPath, id), 1, fail,
                       IF id \in DOMAIN T.cms THEN 200 ELSE 404)
        rollout0 == T.cms[id]
        runName == RunName(addon, T.nextId)
        T2 == storeReq([T1 EXCEPT !.nextId = @ + 1], "POST", CmPath, 2, fail, 201)
        run == ConfigMap(MapPut(MapPut(EmptyMap, "addon", addon), "owner", id),
                         MapPut(EmptyMap, "addon", addon), id)
        T3 == [T2 EXCEPT !.cms = MapPut(@, runName, run)]
        T4 == storeReq(T3, "PUT", Append(CmPath, id), 3, fail, 200)
    IN IF T1.err # "" THEN T1
       ELSE IF T2.err # "" THEN T2
       ELSE IF addon \in DOMAIN rollout0.data
       THEN [T3 EXCEPT !.err = "addon run already exists"]
       ELSE IF T4.err # "" THEN T4
       ELSE [T4 EXCEPT !.cms = MapPut(@, id, [rollout0 EXCEPT !.data = MapPut(@, addon, runName)]),
                       !.id = runName]

\* CompleteRollout with the update branch sending the pointer back unchanged
CompleteRolloutStale(T, id, fail) ==
    LET T1 == storeReq(T, "GET", CmPath, 1, fail, 200)
        items == livePointers(T.cms)
        T2c == storeReq(T1, "POST", CmPath, 2, fail,
                        IF LiveName \in DOMAIN T.cms THEN 409 ELSE 201)
        T2u == storeReq(T1, "PUT", Append(CmPath, LiveName), 2, fail, 200)
    IN IF T1.err # "" THEN T1
       ELSE IF items = {}
       THEN IF T2c.err # "" THEN T2c
            ELSE [T2c EXCEPT !.cms = MapPut(@, LiveName,
                                ConfigMap(LiveLabels, MapPut(EmptyMap, "rollout", id), NoName))]
       ELSE T2u

CompleteRollout(T, id, fail) ==
    LET T1 == storeReq(T, "GET", CmPath, 1, fail, 200)
        items == livePointers(T.cms)
        T2c == storeReq(T1, "POST", CmPath, 2, fail,
                        IF LiveName \in DOMAIN T.cms THEN 409 ELSE 201)
        T2u == storeReq(T1, "PUT", Append(CmPath, LiveName), 2, fail, 200)
    IN IF T1.err # "" THEN T1
       ELSE IF items = {}
       THEN IF T2c.err # "" THEN T2c
            ELSE [T2c EXCEPT !.cms = MapPut(@, LiveName,
                                ConfigMap(LiveLabels, MapPut(EmptyMap, "rollout", id), NoName))]
       ELSE IF T2u.err # "" THEN T2u
       ELSE [T2u EXCEPT !.cms = MapPut(@, LiveName,
                           [T.cms[LiveName] EXCEPT !.data = MapPut(@, "rollout", id)])]

\* rollouts some ConfigMap labelled rollout=live points at
LiveRollouts(c) ==
    {c[n].data["rollout"] : n \in {m \in DOMAIN c : "rollout" \in DOMAIN c[m].labels
                                                     /\ c[m].labels["rollout"] = "live"}}

----------------------------------------------------------------------------
(* Store steps: any sequence of operations on one store *)

NoOp == [op |-> "none"]

\* a store that has already seen one completed rollout
OldRollout == RolloutName(0)

UsedStore ==
    MapPut(MapPut(EmptyMap, OldRollout, ConfigMap(EmptyMap, EmptyMap, NoName)),
           LiveName, ConfigMap(LiveLabels, MapPut(EmptyMap, "rollout", OldRollout), NoName))

InitStores == {EmptyMap, UsedStore}

AddonNames == {"a1", "a2"}

\* rollout ids a caller may hold: those in the store, and one it never issued
BogusId == <<"rollout", "bogus">>

KnownIds(c) == {n \in DOMAIN c : Len(n) = 2 /\ n[1] = "rollout" /\ n # LiveName} \cup {BogusId}

Stored(T, op) ==
    /\ cms' = T.cms
    /\ nextId' = T.nextId
    /\ reqs' = T.reqs
    /\ storeOp' = op

StoreInit == cms \in InitStores /\ nextId = 1 /\ storeOp = NoOp

KubeIdle ==
    /\ dryRun = FALSE /\ force = FALSE /\ server = EmptyMap /\ reqs = <<>> /\ out = <<>>
    /\ lastErr = "" /\ lastCall = NoCall /\ calls = 0

StoreRest == UNCHANGED <<dryRun, force, server, out, lastErr, lastCall, calls, driverVars, loaderVars, restVars>>

StoreCreate ==
    /\ nextId <= MaxIds
    /\ \E fail \in 0..1 :
         LET T == CreateRollout(StoreStart(cms, nextId), fail)
         IN Stored(T, [op |-> "create", id |-> T.id, addon |-> "", err |-> T.err,
                       was |-> LiveRollouts(cms)])
    /\ StoreRest

StorePutAddonRun ==
    /\ nextId <= MaxIds
    /\ \E id \in KnownIds(cms), addon \in AddonNames, fail \in 0..3 :
         LET T == PutAddonRun(StoreStart(cms, nextId), id, addon, fail)
         IN Stored(T, [op |-> "put", id |-> id, addon |-> addon, err |-> T.err,
                       was |-> LiveRollouts(cms)])
    /\ StoreRest

StoreComplete ==
    /\ \E id \in KnownIds(cms), fail \in 0..2 :
         LET T == CompleteRollout(StoreStart(cms, nextId), id, fail)
         IN Stored(T, [op |-> "complete", id |-> id, addon |-> "", err |-> T.err,
                       was |-> LiveRollouts(cms)])
    /\ StoreRest

InitStore == KubeIdle /\ StoreInit /\ DriverIdle /\ LoaderIdle /\ RestIdle

NextStore == StoreCreate \/ StorePutAddonRun \/ StoreComplete

SpecStore == InitStore /\ [][NextStore]_vars

\* C6: a store has at most one live rollout, and a successful
\* CompleteRollout(id) leaves id as the live rollout in place of the one
\* that was live before.
C6_OneLiveRollout ==
    /\ Cardinality(LiveRollouts(cms)) <= 1
    /\ (storeOp.op = "complete" /\ storeOp.err = "") => LiveRollouts(cms) = {storeOp.id}

\* a rollout was completed while another one was live
C6_Witness ==
    /\ storeOp.op = "complete" /\ storeOp.err = ""
    /\ storeOp.was # {} /\ storeOp.was # {storeOp.id}
    /\ storeOp.id # OldRollout /\ storeOp.was # {OldRollout}

----------------------------------------------------------------------------
(* Driver: main, ForEachCluster, Run and runCommand                        *)

MaxClusters == 2   \* clusters returned by clusters()
MaxAddons == 2     \* addons returned by addons() that match the filter

\* values clusters() may return: one that implements KubernetesVendor, one that does not
ClusterValues == {"gke", "other"}

ClusterLists == SeqsUpTo(ClusterValues, MaxClusters)

AddonSeq == <<"a1", "a2", "a3", "a4">>

\* what the scripts' callbacks send to the cluster
DriverServer == MapPut(MapPut(EmptyMap, SvcURI, LiveSvc(41)), CrbURI, LiveCrb("bar"))

DriverArgs == {[ns |-> "bar", ag |-> "", sub |-> ""]}

DriverFaults == {NoFault, [kind |-> "write", lingers |-> FALSE]}

DriverPutLists ==
    {<<Svc("", "", 42, NoLabels)>>, <<Crb("", "", Ref("bar", "ClusterRole"), NoLabels)>>,
     <<Pod("", "", NoLabels)>>}

DriverYamlLists == {<<Svc("foo", "bar", 0, NoLabels)>>}

\* what has happened so far; failedIn is the cluster of the last failed callback
HistInit ==
    [anyRunFailed |-> FALSE, fatal |-> FALSE, installFailed |-> FALSE,
     completeCalled |-> FALSE, liveAtStart |-> {}, failedIn |-> 0]

\* runUntilErr that goes on with the next addon after a failure
runUntilErrGoesOn(err, i, n) ==
    IF i < n THEN "next" ELSE IF err # "" THEN "failed" ELSE "done"

\* runUntilErr that drops the error of the addon function
runUntilErrDropsError(err, i, n) ==
    IF err # "" THEN "done" ELSE IF i < n THEN "next" ELSE "done"

\* runUntilErr: where the loop over the addons goes after addon i of n returned err
runUntilErr(err, i, n) ==
    IF err # "" THEN "failed" ELSE IF i < n THEN "next" ELSE "done"

\* main's exit status that reports failed runs as success
exitStatusZero(failed) == 0

\* main's exit status once every cluster was visited
exitStatus(failed) == IF failed THEN 2 ELSE 0

DriverInit ==
    /\ cmd \in {"install", "remove", "list"}
    /\ pc = "main" /\ clusters = <<>> /\ ci = 0 /\ addons = <<>> /\ ai = 0
    /\ rollout = NoName /\ errorReturned = FALSE /\ exitCode = -1 /\ hist = HistInit

\* main up to the iteration over clusters(): any fatal error exits with status 1
ForEachCluster ==
    /\ pc = "main"
    /\ \E fatal \in BOOLEAN, cl \in ClusterLists :
         IF fatal
         THEN /\ cl = <<>>
              /\ exitCode' = 1 /\ pc' = "done" /\ hist' = [hist EXCEPT !.fatal = TRUE]
              /\ UNCHANGED <<clusters, ci>>
         ELSE /\ clusters' = cl /\ ci' = 1 /\ pc' = "cluster"
              /\ UNCHANGED <<exitCode, hist>>
    /\ UNCHANGED <<cmd, addons, ai, rollout, errorReturned>>
    /\ UNCHANGED <<kubeVars, storeVars, loaderVars, restVars>>

\* a value that is no KubernetesVendor is logged and skipped
SkipCluster ==
    /\ pc = "cluster" /\ ci <= Len(clusters) /\ clusters[ci] # "gke"
    /\ ci' = ci + 1
    /\ UNCHANGED <<cmd, pc, clusters, addons, ai, rollout, errorReturned, exitCode, hist>>
    /\ UNCHANGED <<kubeVars, storeVars, loaderVars, restVars>>

\* main's callback for one cluster: build the runtime (fatal on failure), then
\* Run: addons(), filter, load, and runCommand up to the first addon
BeginCluster ==
    /\ pc = "cluster" /\ ci <= Len(clusters) /\ clusters[ci] = "gke"
    /\ \E fatal \in BOOLEAN, n \in 0..MaxAddons, st \in InitStores, fail \in 0..1 :
         LET h == [hist EXCEPT !.installFailed = FALSE, !.completeCalled = FALSE,
                               !.liveAtStart = LiveRollouts(st)]
             srv == DriverServer
             recording == cmd = "install" /\ ~dryRun
             T == IF recording /\ n > 0 THEN CreateRollout(StoreStart(st, 1), fail)
                  ELSE StoreStart(st, 1)
             runErr == IF n = 0 THEN "no addon matches the filter regexp" ELSE T.err
             returns == runErr # "" \/ cmd = "list"
         IN /\ (fail # 0 \/ st # EmptyMap) => (recording /\ n > 0 /\ ~fatal)
            /\ IF fatal
               THEN /\ n = 0
                    /\ exitCode' = 1 /\ pc' = "done" /\ hist' = [h EXCEPT !.fatal = TRUE]
                    /\ UNCHANGED <<ci, addons, ai, rollout, errorReturned>>
                    /\ UNCHANGED <<server, reqs, out, cms, nextId>>
               ELSE /\ server' = srv /\ reqs' = T.reqs /\ out' = <<>>
                    /\ cms' = T.cms /\ nextId' = T.nextId
                    /\ addons' = SubSeq(AddonSeq, 1, n)
                    /\ rollout' = T.id
                    /\ hist' = [h EXCEPT !.anyRunFailed = @ \/ runErr # ""]
                    /\ errorReturned' = (errorReturned \/ runErr # "")
                    /\ IF returns THEN ci' = ci + 1 /\ pc' = "cluster" /\ ai' = 0
                       ELSE ci' = ci /\ pc' = "addon" /\ ai' = 1
                    /\ UNCHANGED exitCode
    /\ lastErr' = "" /\ lastCall' = NoCall /\ calls' = 0
    /\ UNCHANGED <<cmd, clusters, dryRun, force, storeOp, loaderVars, restVars>>

\* the addon's script is running and has not failed
InCallback == pc = "addon" /\ lastErr = "" /\ calls < MaxCalls

CallPut ==
    InCallback /\ DoPut(DriverArgs, DriverPutLists, DriverFaults)
    /\ UNCHANGED <<storeVars, driverVars, loaderVars, restVars>>

CallPutYaml ==
    InCallback /\ DoPutYaml({"bar"}, DriverYamlLists, DriverFaults)
    /\ UNCHANGED <<storeVars, driverVars, loaderVars, restVars>>

CallDelete ==
    InCallback /\ DoDelete({"service"}, {"bar"}, {""}, DriverFaults)
    /\ UNCHANGED <<storeVars, driverVars, loaderVars, restVars>>

\* the addon function returns: a failed builtin or the script's own error
\* fails it; a successful install is recorded; after the last addon the
\* rollout is completed; then Run returns to main
CallbackReturn ==
    /\ pc = "addon"
    /\ \E scriptErr \in BOOLEAN, f1 \in 0..3, f2 \in 0..2 :
         /\ lastErr # "" => ~scriptErr
         /\ f1 # 0 => (cmd = "install" /\ ~dryRun /\ lastErr = "" /\ ~scriptErr)
         /\ f2 # 0 => (cmd = "install" /\ ~dryRun /\ lastErr = "" /\ ~scriptErr /\ f1 = 0
                        /\ ai = Len(addons))
         /\ LET cbErr == IF lastErr # "" THEN lastErr
                         ELSE IF scriptErr THEN "script error" ELSE ""
                recording == cmd = "install" /\ ~dryRun
                T0 == StoreStart(cms, nextId)
                T1 == IF cbErr = "" /\ recording
                      THEN PutAddonRun(T0, rollout, addons[ai], f1) ELSE T0
                err == IF cbErr # "" THEN cbErr ELSE T1.err
                nxt == runUntilErr(err, ai, Len(addons))
                T2 == IF nxt = "done" /\ recording THEN CompleteRollout(T1, rollout, f2) ELSE T1
                runErr == IF nxt = "failed" THEN err ELSE IF nxt = "done" THEN T2.err ELSE ""
            IN /\ cms' = T2.cms /\ nextId' = T2.nextId /\ reqs' = T2.reqs
               /\ hist' = [hist EXCEPT
                             !.failedIn = IF cbErr # "" THEN ci ELSE @,
                             !.installFailed = @ \/ (cmd = "install" /\ err # ""),
                             !.completeCalled = @ \/ (nxt = "done" /\ recording),
                             !.anyRunFailed = @ \/ runErr # ""]
               /\ errorReturned' = (errorReturned \/ runErr # "")
               /\ IF nxt = "next" THEN ai' = ai + 1 /\ UNCHANGED <<ci, pc>>
                  ELSE ci' = ci + 1 /\ pc' = "cluster" /\ ai' = 0
    /\ out' = <<>> /\ lastErr' = "" /\ lastCall' = NoCall /\ calls' = 0
    /\ UNCHANGED <<cmd, clusters, addons, rollout, exitCode>>
    /\ UNCHANGED <<dryRun, force, server, storeOp, loaderVars, restVars>>

\* every cluster was visited: main returns, with status 2 after a failed run
Exit ==
    /\ pc = "cluster" /\ ci > Len(clusters)
    /\ exitCode' = exitStatus(errorReturned) /\ pc' = "done"
    /\ UNCHANGED <<cmd, clusters, ci, addons, ai, rollout, errorReturned, hist>>
    /\ UNCHANGED <<kubeVars, storeVars, loaderVars, restVars>>

Init ==
    /\ dryRun \in BOOLEAN /\ force \in BOOLEAN /\ server = EmptyMap /\ reqs = <<>>
    /\ out = <<>> /\ lastErr = "" /\ lastCall = NoCall /\ calls = 0
    /\ StoreIdle /\ DriverInit /\ LoaderIdle /\ RestIdle

Next ==
    \/ ForEachCluster \/ SkipCluster \/ BeginCluster
    \/ CallPut \/ CallPutYaml \/ CallDelete \/ CallbackReturn \/ Exit

Spec == Init /\ [][Next]_vars

----------------------------------------------------------------------------
(* Properties of the driver *)

\* C1: under dry-run the API server observes no POST, PUT or DELETE, whatever
\* the callbacks call (immutable updates with force included) and whatever
\* the command records in the store.
C1_DryRunNoMutation ==
    dryRun => \A k \in 1..Len(reqs) : ~Mutating(reqs[k])

\* a forced immutable update was rendered in dry-run during an install
C1_Witness ==
    /\ dryRun /\ force /\ cmd = "install" /\ pc = "addon"
    /\ lastCall.fn = "put" /\ lastErr = ""
    /\ \E k \in 1..Len(reqs) : ImmutableProbe(k)
    /\ out # <<>>

\* a dry-run install went through all its addons and returned
C1_WitnessInstalled ==
    /\ dryRun /\ cmd = "install" /\ pc = "done" /\ exitCode = 0
    /\ Len(addons) > 1 /\ hist.failedIn = 0

\* C5: when an addon's install or the recording of its run failed in a
\* recording install, CompleteRollout is not called and the store's live
\* pointer is what it was when the command reached the cluster.
C5_FailedRolloutNotLive ==
    (cmd = "install" /\ ~dryRun /\ hist.installFailed) =>
        /\ ~hist.completeCalled
        /\ LiveRollouts(cms) = hist.liveAtStart

\* the second addon's install failed after the first was recorded, in a
\* cluster whose store already had a live rollout
C5_Witness ==
    /\ cmd = "install" /\ ~dryRun /\ hist.installFailed
    /\ hist.liveAtStart = {OldRollout}
    /\ rollout \in DOMAIN cms /\ DOMAIN cms[rollout].data # {}

\* the recording of a run failed although its install succeeded
C5_WitnessRecording ==
    /\ cmd = "install" /\ ~dryRun /\ hist.installFailed /\ hist.failedIn = 0

\* C7: once an addon's callback failed in a cluster no other addon of that
\* cluster is run: the driver is past that cluster, and unless a fatal error
\* ends the process it visits every later cluster before it exits.
C7_FailureSkipsToNextCluster ==
    hist.failedIn # 0 =>
        /\ ci > hist.failedIn
        /\ (pc = "done" /\ ~hist.fatal) => ci > Len(clusters)

\* a callback failed in the first cluster and a callback of the second runs
C7_Witness ==
    /\ hist.failedIn = 1 /\ ci = 2 /\ pc = "addon" /\ ai = 2 /\ lastCall # NoCall

\* C8 (as claimed): the process exits with status 2 exactly when some
\* cluster's addon run failed, and with 0 when none did.
C8_ExitTwoIffRunFailed ==
    pc = "done" =>
        /\ exitCode = 2 <=> hist.anyRunFailed
        /\ (~hist.anyRunFailed /\ ci > Len(clusters)) => exitCode = 0

\* C8 (amended): the process exits with status 2 exactly when some cluster's
\* addon run failed and no fatal error ended the process, with 0 exactly when
\* every cluster was visited and no run failed, and with 1 on a fatal error.
C8_ExitStatus ==
    pc = "done" =>
        /\ exitCode = 2 <=> (hist.anyRunFailed /\ ~hist.fatal)
        /\ exitCode = 0 <=> (~hist.anyRunFailed /\ ~hist.fatal)
        /\ exitCode = 1 <=> hist.fatal
        /\ ~hist.fatal => ci > Len(clusters)

\* a run failed in one cluster, another cluster ran cleanly, and the process
\* exited with status 2
C8_Witness ==
    /\ pc = "done" /\ exitCode = 2 /\ hist.anyRunFailed /\ Len(clusters) > 1
    /\ hist.failedIn = 1 /\ clusters[2] = "gke"

\* a fatal error ended the process after a run had failed
C8_WitnessFatal ==
    /\ pc = "done" /\ exitCode = 1 /\ hist.anyRunFailed

----------------------------------------------------------------------------
(* Module loader: load strings, the cache and the evaluation stack         *)

MaxLoads == 2      \* top-level loads through one loader

\* a load string: @dep//path, @dep/path (malformed) or a local path
Remote(dep, path) == [dep |-> dep, sep |-> "//", path |-> path]

Local(path) == [dep |-> "", sep |-> "", path |-> path]

\* filepath.Ext of the module's last element
Ext(module) ==
    LET name == module.path[Len(module.path)]
    IN IF name = "c.txt" THEN ".txt" ELSE IF name = "m.star" THEN ".star" ELSE ".ipd"

RECURSIVE Clean(_)
\* filepath.Clean of a relative path: "." is dropped and "x/.." cancels
Clean(p) ==
    IF \E i \in 1..Len(p) : p[i] = "."
    THEN LET i == CHOOSE k \in 1..Len(p) : p[k] = "."
         IN Clean(SubSeq(p, 1, i - 1) \o SubSeq(p, i + 1, Len(p)))
    ELSE IF \E i \in 2..Len(p) : p[i] = ".." /\ p[i - 1] # ".."
    THEN LET i == CHOOSE k \in 2..Len(p) : p[k] = ".." /\ p[k - 1] # ".."
         IN Clean(SubSeq(p, 1, i - 2) \o SubSeq(p, i + 1, Len(p)))
    ELSE p

Join(a, b) == Clean(a \o b)

Dir(p) == Clean(SubSeq(p, 1, Len(p) - 1))

\* the registered remote dependencies
Dependencies ==
    MapPut(MapPut(EmptyMap, "dep", [dir |-> <<"deps", "dep">>, version |-> "v1", fetches |-> TRUE]),
           "gone", [dir |-> <<"deps", "gone">>, version |-> "v2", fetches |-> FALSE])

\* a file: the load statements it executes in order, and whether its own
\* code then fails
File(loads, bad) == [loads |-> loads, bad |-> bad]

FileTree(cBad) ==
    [p \in {<<"main.ipd">>, <<"lib", "b.ipd">>, <<"lib", "c.ipd">>, <<"c.ipd">>,
            <<"a.ipd">>, <<"b.ipd">>, <<"s.ipd">>, <<"sub", "a.ipd">>,
            <<"deps", "dep", "m.star">>} |->
       CASE p = <<"main.ipd">> -> File(<<Local(<<"lib", "b.ipd">>), Local(<<"lib", "b.ipd">>),
                                         Local(<<"c.ipd">>)>>, FALSE)
         [] p = <<"lib", "b.ipd">> -> File(<<Local(<<"c.ipd">>), Local(<<"..", "c.ipd">>)>>, FALSE)
         [] p = <<"lib", "c.ipd">> -> File(<<>>, FALSE)
         [] p = <<"c.ipd">> -> File(<<>>, cBad)
         [] p = <<"a.ipd">> -> File(<<Local(<<"b.ipd">>)>>, FALSE)
         [] p = <<"b.ipd">> -> File(<<Local(<<"a.ipd">>)>>, FALSE)
         [] p = <<"s.ipd">> -> File(<<Local(<<"s.ipd">>)>>, FALSE)
         [] p = <<"sub", "a.ipd">> -> File(<<Local(<<"a.ipd">>)>>, FALSE)
         [] OTHER -> File(<<Local(<<"m.star">>)>>, FALSE)]

FileSystems == {FileTree(FALSE), FileTree(TRUE)}

\* what addons and scripts ask the loader for
TopModules ==
    {Local(<<"main.ipd">>), Local(<<"c.ipd">>), Local(<<"a.ipd">>), Local(<<"s.ipd">>),
     Local(<<"sub", "a.ipd">>), Local(<<"c.txt">>), Local(<<"none.ipd">>),
     Remote("dep", <<"m.star">>), Remote("gone", <<"m.star">>), Remote("nodep", <<"m.star">>),
     [dep |-> "dep", sep |-> "/", path |-> <<"m.star">>]}

NilModule == [nil |-> TRUE]

Module(globals, err, file, version) ==
    [nil |-> FALSE, globals |-> globals, err |-> err, file |-> file, version |-> version]

CycleError == "cycle in load graph"

\* the cache lookup with no test for a load in progress
lookupNoCycle(ld, module) ==
    IF module \in DOMAIN ld /\ ld[module] # NilModule THEN "hit" ELSE "miss"

\* the cache lookup: a module, a placeholder of a load in progress, or nothing
lookup(ld, module) ==
    IF module \in DOMAIN ld /\ ld[module] # NilModule THEN "hit"
    ELSE IF module \in DOMAIN ld THEN "cycle"
    ELSE "miss"

\* the cache update keyed by the module path after the remote prefix is cut
updateCacheStripped(ld, fullModule, module, m) == MapPut(ld, module, m)

\* the cache update when the evaluation has ended
updateCache(ld, fullModule, module, m) == MapPut(ld, fullModule, m)

Early(ld, err) == [kind |-> "early", loaded |-> ld, globals |-> 0, err |-> err]

\* anchoredLoadFn up to the evaluation of the module: a cached result, an
\* error, or the frame in which the module's file is evaluated
anchoredLoadFn(files, ld, baseDir, module, gid) ==
    LET found == lookup(ld, module)
        ld1 == MapPut(ld, module, NilModule)
        remote == module.sep # ""
        dep == Dependencies[module.dep]
        base == IF remote THEN dep.dir ELSE baseDir
        file == Join(base, module.path)
    IN IF found = "hit"
       THEN [kind |-> "hit", loaded |-> ld, globals |-> ld[module].globals, err |-> ld[module].err,
             file |-> file, source |-> ld[module].file]
       ELSE IF found = "cycle"
       THEN [kind |-> "cycle", loaded |-> ld, globals |-> 0, err |-> CycleError]
       ELSE IF Ext(module) \notin {".ipd", ".star"}
       THEN Early(ld1, "unknown file extension")
       ELSE IF remote /\ module.sep # "//"
       THEN Early(ld1, "remote module must contain double slash")
       ELSE IF remote /\ module.dep \notin DOMAIN Dependencies
       THEN Early(ld1, "module is not registered")
       ELSE IF remote /\ ~dep.fetches
       THEN Early(ld1, "failed to fetch module")
       ELSE IF file \notin DOMAIN files
       THEN Early(ld1, "no such file")
       ELSE [kind |-> "exec", loaded |-> ld1, globals |-> gid, err |-> "",
             file |-> file, source |-> file,
             frame |-> [key |-> module, module |-> Local(module.path), file |-> file,
                        dir |-> Join(base, Dir(module.path)), next |-> 1, err |-> "",
                        globals |-> gid,
                        version |-> IF remote THEN dep.version ELSE ""]]

----------------------------------------------------------------------------
(* Loader steps *)

NoRet == [kind |-> "none"]

NoLoad == [kind |-> "none"]

Result(globals, err) == [kind |-> "returned", globals |-> globals, err |-> err]

\* what one load statement did: repeat says a load of the same string had
\* finished its evaluation before, inProgress that one was being evaluated;
\* wanted is the file the load string names from where the load was made,
\* source the file whose evaluation made the globals that came back
Note(r, module) ==
    [kind |-> r.kind, key |-> module, globals |-> r.globals, err |-> r.err,
     wanted |-> IF r.kind \in {"hit", "exec"} THEN r.file ELSE <<>>,
     source |-> IF r.kind \in {"hit", "exec"} THEN r.source ELSE <<>>,
     evaluated |-> r.kind = "exec",
     repeat |-> module \in DOMAIN first,
     inProgress |-> \E i \in 1..Len(stack) : stack[i].key = module]

LoaderInit ==
    /\ fs \in FileSystems /\ loaded = EmptyMap /\ stack = <<>> /\ ret = NoRet
    /\ evals = 0 /\ lastLoad = NoLoad /\ first = EmptyMap /\ topLoads = 0

\* Load: a load from outside any module, relative to the loader's base directory
TopLoad ==
    /\ stack = <<>> /\ topLoads < MaxLoads
    /\ \E module \in TopModules :
         LET r == anchoredLoadFn(fs, loaded, <<>>, module, evals + 1)
         IN /\ loaded' = r.loaded
            /\ lastLoad' = Note(r, module)
            /\ IF r.kind = "exec"
               THEN stack' = <<r.frame>> /\ evals' = evals + 1 /\ ret' = NoRet
               ELSE stack' = <<>> /\ evals' = evals /\ ret' = Result(r.globals, r.err)
    /\ topLoads' = topLoads + 1
    /\ UNCHANGED <<fs, first>>
    /\ UNCHANGED <<kubeVars, storeVars, driverVars, restVars>>

\* the module being evaluated executes its next load statement; a failed
\* load ends its evaluation
LoadStmt ==
    /\ stack # <<>>
    /\ LET top == stack[Len(stack)]
           file == fs[top.file]
       IN /\ top.err = "" /\ top.next <= Len(file.loads)
          /\ LET module == file.loads[top.next]
                 r == anchoredLoadFn(fs, loaded, top.dir, module, evals + 1)
                 top1 == IF r.err # "" THEN [top EXCEPT !.err = r.err]
                         ELSE [top EXCEPT !.next = @ + 1]
             IN /\ loaded' = r.loaded
                /\ lastLoad' = Note(r, module)
                /\ IF r.kind = "exec"
                   THEN stack' = Append(stack, r.frame) /\ evals' = evals + 1
                   ELSE stack' = [stack EXCEPT ![Len(stack)] = top1] /\ evals' = evals
    /\ UNCHANGED <<fs, ret, first, topLoads>>
    /\ UNCHANGED <<kubeVars, storeVars, driverVars, restVars>>

\* ExecFile returns: the module is cached and handed to the load that asked for it
ExecDone ==
    /\ stack # <<>>
    /\ LET top == stack[Len(stack)]
           file == fs[top.file]
           rest == SubSeq(stack, 1, Len(stack) - 1)
           err == IF top.err # "" THEN top.err
                  ELSE IF file.bad THEN "evaluation failed" ELSE ""
           m == Module(top.globals, err, top.file, top.version)
       IN /\ top.err # "" \/ top.next > Len(file.loads)
          /\ loaded' = updateCache(loaded, top.key, top.module, m)
          /\ first' = IF top.key \in DOMAIN first THEN first
                      ELSE MapPut(first, top.key, [globals |-> m.globals, err |-> m.err])
          /\ IF rest = <<>>
             THEN stack' = <<>> /\ ret' = Result(m.globals, m.err)
             ELSE /\ stack' = [rest EXCEPT ![Len(rest)] =
                                  IF err # "" THEN [@ EXCEPT !.err = err]
                                  ELSE [@ EXCEPT !.next = @ + 1]]
                  /\ ret' = ret
    /\ UNCHANGED <<fs, evals, lastLoad, topLoads>>
    /\ UNCHANGED <<kubeVars, storeVars, driverVars, restVars>>

InitLoader == KubeIdle /\ StoreIdle /\ DriverIdle /\ LoaderInit /\ RestIdle

NextLoader == TopLoad \/ LoadStmt \/ ExecDone

\* the interpreter runs every evaluation it started to its end
SpecLoader == InitLoader /\ [][NextLoader]_vars /\ WF_vars(LoadStmt) /\ WF_vars(ExecDone)

\* C9: a load of a module string whose first load was evaluated returns what
\* that evaluation cached, its globals or its error, and evaluates nothing.
C9_RepeatedLoadIsCached ==
    (lastLoad.kind # "none" /\ lastLoad.repeat) =>
        /\ lastLoad.kind = "hit" /\ ~lastLoad.evaluated
        /\ lastLoad.globals = first[lastLoad.key].globals
        /\ lastLoad.err = first[lastLoad.key].err

\* a module evaluated once was loaded again and its globals came back
C9_Witness ==
    /\ lastLoad.kind = "hit" /\ lastLoad.repeat /\ lastLoad.err = ""
    /\ lastLoad.globals # 0 /\ evals > lastLoad.globals

\* a module whose evaluation failed was loaded again and its error came back
C9_WitnessError ==
    /\ lastLoad.kind = "hit" /\ lastLoad.repeat /\ lastLoad.err = "evaluation failed"

\* a remote module was loaded a second time
C9_WitnessRemote ==
    /\ lastLoad.kind = "hit" /\ lastLoad.repeat /\ lastLoad.key.sep = "//"

\* a load of a module string that is being evaluated fails with the cycle
\* error and evaluates nothing, the error ends the load that started it, and
\* no module string is evaluated inside itself; a file reached again under
\* another string is evaluated at most once more, and that evaluation fails
NoReentry ==
    /\ (lastLoad.kind # "none" /\ lastLoad.inProgress) =>
          /\ lastLoad.kind = "cycle" /\ lastLoad.err = CycleError /\ ~lastLoad.evaluated
          /\ stack = <<>> => ret.err = CycleError
    /\ \A i, j \in 1..Len(stack) : i # j => stack[i].key # stack[j].key
    /\ \A i, j \in 1..Len(stack) :
          (i < j /\ stack[i].file = stack[j].file) =>
             /\ \A k \in 1..Len(stack) : stack[k].file = stack[i].file => k \in {i, j}
             /\ stack[j].err \in {"", CycleError}
             /\ stack[j].err = "" => stack[j].next <= Len(fs[stack[j].file].loads)

\* C10: a load that re-enters a module being evaluated fails with "cycle in
\* load graph" instead of recursing, and every load that was started ends.
C10_CycleFailsAndLoadingEnds ==
    /\ []NoReentry
    /\ (stack # <<>>) ~> (stack = <<>>)

\* a cycle of two modules was cut where it closed
C10_Witness ==
    /\ lastLoad.kind = "cycle" /\ lastLoad.inProgress /\ Len(stack) = 2
    /\ lastLoad.key # stack[2].key

\* a file that loads itself under another string is being evaluated again
C10_WitnessFile ==
    /\ Len(stack) = 2 /\ stack[1].file = stack[2].file /\ stack[2].err = CycleError

\* the load that led into a cycle has returned the cycle error
C10_WitnessReturned ==
    /\ lastLoad.kind = "cycle" /\ lastLoad.inProgress /\ stack = <<>> /\ ret.err = CycleError
----------------------------------------------------------------------------
(* Blocking builtins: kube.get / kube.exists with wait, sleep, and the     *)
(* kube.* round-trips, run under the command's context.                    *)

MaxWait == 2       \* longest wait / sleep duration, in ticks
MaxProbes == 3     \* GET probes counted per call (the count saturates)

\* time is observed up to one tick past the longest deadline
MaxTime == MaxWait + 1

Waits == 0..MaxWait

ErrNotFound == "not found"

Canceled == "context canceled"

NoBRet == [kind |-> "none"]

\* the builtin returned val, err; got is the error of kubeGet itself
BRet(val, err, got) == [kind |-> "returned", val |-> val, err |-> err, got |-> got]

\* a kubeGet that never arms its deadline
waitTimerNever(wait) == "nil"

\* kubeGet: waitDone stays nil unless wait is non-zero
waitTimer(wait) == IF wait # 0 THEN "armed" ELSE "nil"

\* kubeGetFn / kubeExistsFn: what the builtin makes of kubeGet's (obj, err)
getReturn(fn, obj, err) ==
    IF fn = "exists"
    THEN IF err = ErrNotFound THEN BRet("False", "", err)
         ELSE IF err # "" THEN BRet("False", err, err)
         ELSE BRet("True", "", "")
    ELSE IF err # "" THEN BRet("None", err, err)
         ELSE BRet(obj, "", "")

\* httpClient.Do(req.WithContext(ctx)): a done context fails the round-trip
\* before the server sees it
withContext(done, S, T) == IF done THEN [S EXCEPT !.err = Canceled] ELSE T

\* the variables a blocking builtin never touches
BlockRest == UNCHANGED <<dryRun, force, out, lastErr, lastCall, storeVars, driverVars, loaderVars, orderVars, testVars, spinVars, ctxVars, gitVars>>

BlockServers == {EmptyMap, MapPut(EmptyMap, SvcURI, LiveSvc(41))}

BlockInit ==
    /\ dryRun = FALSE /\ force = FALSE /\ server \in BlockServers /\ reqs = <<>>
    /\ out = <<>> /\ lastErr = "" /\ lastCall = NoCall /\ calls = 0
    /\ BlockIdle

\* the builtin returns r
BlockReturns(r) == bpc' = "returned" /\ bret' = r

\* kube.get / kube.exists is called: kubeGetFn up to kubeGet's first select
CallGet ==
    /\ bpc = "idle" /\ calls < MaxCalls
    /\ \E fn \in {"get", "exists"}, w \in Waits, res \in {"service", "widget"} :
         LET nr == newResource(ArgName, "bar", "", res, "")
         IN /\ bcall' = [fn |-> fn, wait |-> w, late |-> ctxDone,
                         url |-> IF nr.err = "" THEN PathWithName(nr.r) ELSE <<>>]
            /\ IF nr.err # ""
               THEN /\ BlockReturns(BRet(IF fn = "exists" THEN "False" ELSE "None", nr.err, ""))
                    /\ UNCHANGED <<retryCh, waitDone>>
               ELSE /\ bpc' = "select" /\ bret' = NoBRet
                    /\ retryCh' = 1
                    /\ waitDone' = waitTimer(w)
    /\ now' = 0 /\ probes' = 0 /\ probeTimes' = <<>> /\ reqs' = <<>> /\ calls' = calls + 1
    /\ UNCHANGED <<server, ctxDone>>
    /\ BlockRest

\* select: case retryCh <- time.After(waitRetryInterval)
SelectSend ==
    /\ bpc = "select" /\ retryCh = 0
    /\ retryCh' = 1
    /\ UNCHANGED <<ctxDone, now, bcall, bpc, waitDone, probes, probeTimes, bret, server, reqs, calls>>
    /\ BlockRest

\* select: case <-retryCh, then the probe and what kubeGet does with its answer
SelectRecv ==
    /\ bpc = "select" /\ retryCh = 1
    /\ retryCh' = 0
    /\ \E F \in {NoFault, [kind |-> "get", lingers |-> FALSE]} :
         LET S0 == Start(server)
             pk == kubePeek(S0, bcall.url, 0, F)
             S1 == withContext(ctxDone, S0, pk.S)
         IN /\ reqs' = S1.reqs
            /\ probes' = IF Len(S1.reqs) > 0 /\ probes < MaxProbes THEN probes + 1 ELSE probes
            /\ probeTimes' = IF Len(S1.reqs) > 0 /\ probes < MaxProbes
                             THEN Append(probeTimes, now) ELSE probeTimes
            /\ IF S1.err # "" THEN BlockReturns(getReturn(bcall.fn, NoObj, S1.err))
               ELSE IF pk.found THEN BlockReturns(getReturn(bcall.fn, pk.live, ""))
               ELSE IF waitDone = "nil" THEN BlockReturns(getReturn(bcall.fn, NoObj, ErrNotFound))
               ELSE UNCHANGED <<bpc, bret>>
    /\ UNCHANGED <<ctxDone, now, bcall, waitDone, server, calls>>
    /\ BlockRest

\* select: case <-waitDone
SelectWaitDone ==
    /\ bpc = "select" /\ waitDone = "fired"
    /\ BlockReturns(getReturn(bcall.fn, NoObj, ErrNotFound))
    /\ UNCHANGED <<ctxDone, now, bcall, retryCh, waitDone, probes, probeTimes, server, reqs, calls>>
    /\ BlockRest

\* select: case <-ctx.Done()
SelectCtxDone ==
    /\ bpc = "select" /\ ctxDone
    /\ BlockReturns(getReturn(bcall.fn, NoObj, Canceled))
    /\ UNCHANGED <<ctxDone, now, bcall, retryCh, waitDone, probes, probeTimes, server, reqs, calls>>
    /\ BlockRest

\* sleep(d) is called
CallSleep ==
    /\ bpc = "idle" /\ calls < MaxCalls
    /\ \E d \in Waits : bcall' = [fn |-> "sleep", wait |-> d, late |-> ctxDone, url |-> <<>>]
    /\ bpc' = "sleep" /\ bret' = NoBRet /\ now' = 0 /\ probes' = 0 /\ probeTimes' = <<>> /\ reqs' = <<>>
    /\ calls' = calls + 1
    /\ UNCHANGED <<ctxDone, retryCh, waitDone, server>>
    /\ BlockRest

\* time.Sleep(d) is over: SleepFn returns None
SleepReturn ==
    /\ bpc = "sleep" /\ now >= bcall.wait
    /\ BlockReturns(BRet("None", "", ""))
    /\ UNCHANGED <<ctxDone, now, bcall, retryCh, waitDone, probes, probeTimes, server, reqs, calls>>
    /\ BlockRest

\* kube.delete under the command's context (kubeDelete takes no context)
CallDeleteCtx ==
    /\ bpc = "idle" /\ calls < MaxCalls
    /\ \E fg \in BOOLEAN :
         LET S == kubeDeleteFn(server, "service", "bar", ArgName, "", fg, NoFault)
         IN /\ bcall' = [fn |-> "delete", wait |-> 0, late |-> ctxDone, url |-> <<>>]
            /\ server' = S.server /\ reqs' = S.reqs
            /\ BlockReturns(BRet("None", S.err, ""))
    /\ now' = 0 /\ probes' = 0 /\ probeTimes' = <<>> /\ calls' = calls + 1
    /\ UNCHANGED <<ctxDone, retryCh, waitDone>>
    /\ BlockRest

\* kube.put under the command's context (its round-trips carry the context)
CallPutCtx ==
    /\ bpc = "idle" /\ calls < MaxCalls
    /\ LET S0 == Start(server)
           S == withContext(ctxDone, S0,
                            kubePutFn(server, ArgName, "bar", "", "", <<Svc("", "", 0, NoLabels)>>, 0, NoFault))
       IN /\ bcall' = [fn |-> "put", wait |-> 0, late |-> ctxDone, url |-> <<>>]
          /\ server' = S.server /\ reqs' = S.reqs
          /\ BlockReturns(BRet("None", S.err, ""))
    /\ now' = 0 /\ probes' = 0 /\ probeTimes' = <<>> /\ calls' = calls + 1
    /\ UNCHANGED <<ctxDone, retryCh, waitDone>>
    /\ BlockRest

\* a tick of real time; a due timer fires
Tick ==
    /\ bpc \in {"select", "sleep"} /\ now < MaxTime
    /\ now' = now + 1
    /\ waitDone' = IF waitDone = "armed" /\ now + 1 >= bcall.wait THEN "fired" ELSE waitDone
    /\ UNCHANGED <<ctxDone, bcall, bpc, retryCh, probes, probeTimes, bret, server, reqs, calls>>
    /\ BlockRest

\* the caller of Runtime.Run cancels the context
Cancel ==
    /\ ~ctxDone
    /\ ctxDone' = TRUE
    /\ UNCHANGED <<now, bcall, bpc, retryCh, waitDone, probes, probeTimes, bret, server, reqs, calls>>
    /\ BlockRest

\* somebody else creates the object the builtin waits for
Appear ==
    /\ bpc = "select" /\ SvcURI \notin DOMAIN server
    /\ server' = MapPut(server, SvcURI, LiveSvc(41))
    /\ UNCHANGED <<blockVars, reqs, calls>>
    /\ BlockRest

\* a builtin that returned without error lets the script go on
BlockResume ==
    /\ bpc = "returned" /\ bret.err = ""
    /\ bpc' = "idle" /\ bcall' = [fn |-> "none"] /\ bret' = NoBRet
    /\ retryCh' = 0 /\ waitDone' = "nil" /\ probes' = 0 /\ probeTimes' = <<>> /\ now' = 0 /\ reqs' = <<>>
    /\ UNCHANGED <<ctxDone, server, calls>>
    /\ BlockRest

InitBlocking ==
    /\ BlockInit /\ StoreIdle /\ DriverIdle /\ LoaderIdle /\ OrderIdle /\ TestIdle /\ SpinIdle
    /\ CtxIdle /\ GitIdle

NextBlocking ==
    \/ CallGet \/ SelectSend \/ SelectRecv \/ SelectWaitDone \/ SelectCtxDone
    \/ CallSleep \/ SleepReturn \/ CallDeleteCtx \/ CallPutCtx
    \/ Tick \/ Cancel \/ Appear \/ BlockResume

\* timers run, and Go's select picks at random among the ready cases, so a
\* case that stays ready is taken in the end
SpecBlocking ==
    /\ InitBlocking /\ [][NextBlocking]_vars
    /\ WF_vars(Tick) /\ WF_vars(SelectRecv) /\ WF_vars(SelectWaitDone) /\ WF_vars(SleepReturn)
----------------------------------------------------------------------------
(* Claims about kube.get / kube.exists waiting *)

IsGet == bcall.fn \in {"get", "exists"}

\* what holds of every state of a get/exists call
WaitDiscipline ==
    \* the first probe needs no retry interval: the channel is seeded
    /\ (IsGet /\ bpc = "select" /\ probes = 0 /\ reqs = <<>>) => retryCh = 1
    \* while waiting, every probe so far was answered 404
    /\ (IsGet /\ bpc = "select") => \A j \in 1..Len(reqs) : reqs[j].status = 404
    /\ (IsGet /\ bpc = "returned" /\ bret.got = ErrNotFound) =>
          IF bcall.wait = 0
          THEN probes = 1 /\ reqs[1].method = "GET" /\ reqs[1].status = 404
          ELSE waitDone = "fired" /\ now >= bcall.wait
    \* with wait = 0 nothing is probed twice
    /\ (IsGet /\ bcall.wait = 0) => probes <= 1

\* C11: kube.get / kube.exists with wait > 0 probes at once (no retry interval
\* before the first probe), stays in its retry loop while the server answers
\* 404, returns NotFound only after the wait deadline has fired, and does
\* return; with wait = 0 it probes exactly once and returns NotFound.
C11_WaitThenNotFound ==
    /\ []WaitDiscipline
    /\ (IsGet /\ bpc = "select") ~> (bpc = "returned")

\* a wait of two ticks ended in NotFound after more than one probe
C11_Witness ==
    /\ IsGet /\ bpc = "returned" /\ bcall.wait = 2 /\ bret.got = ErrNotFound
    /\ probes >= 2 /\ waitDone = "fired" /\ ~ctxDone

\* wait = 0: one probe, NotFound
C11_WitnessNoWait ==
    /\ IsGet /\ bpc = "returned" /\ bcall.wait = 0 /\ bret.got = ErrNotFound /\ probes = 1
\* C12: a blocking builtin reached after the command's context was cancelled
\* (one whose arguments were accepted) returns the cancellation error and
\* sends no write request.
C12_CancelledBuiltinFails ==
    (bpc = "returned" /\ bcall.fn # "none" /\ bcall.late /\ (IsGet => bcall.url # <<>>)) =>
        /\ bret.err = Canceled
        /\ \A j \in 1..Len(reqs) : ~Mutating(reqs[j])
----------------------------------------------------------------------------
(* Claims about the metadata policy of kube.put / kube.put_yaml *)

\* item i of the last kube.put declares a name other than the name argument
NameClash(i) ==
    lastCall.data[i].name # "" /\ lastCall.data[i].name # lastCall.name

\* item i declares a namespace other than the namespace argument
NamespaceClash(i) ==
    lastCall.data[i].namespace # "" /\ lastCall.data[i].namespace # lastCall.namespace

\* the call failed on item i's metadata and the server saw no write for it
RejectedItem(i) ==
    /\ lastErr # ""
    /\ \A j \in 1..Len(reqs) : reqs[j].item = i => ~Mutating(reqs[j])
    /\ i = 1 => /\ reqs = <<>>
                /\ lastErr = IF NameClash(1) THEN "NameMismatch" ELSE "NamespaceMismatch"

\* C13 as stated: any declared name or namespace that differs from the
\* argument, an omitted namespace argument included, makes kube.put fail
\* with the error naming the field, and no write is sent for the object.
C13_AnyMismatchFails ==
    lastCall.fn = "put" =>
        \A i \in 1..Len(lastCall.data) : (NameClash(i) \/ NamespaceClash(i)) => RejectedItem(i)

\* C13: a declared name that differs from the name argument, or a declared
\* namespace that differs from a namespace argument that was given, makes
\* kube.put fail with the error naming the field, and no write is sent for
\* the object; without a namespace argument the namespace is not compared.
C13_MismatchFails ==
    lastCall.fn = "put" =>
        \A i \in 1..Len(lastCall.data) :
            (NameClash(i) \/ (lastCall.namespace # "" /\ NamespaceClash(i))) => RejectedItem(i)

\* a put whose only item declares another namespace was rejected
C13_Witness ==
    /\ lastCall.fn = "put" /\ Len(lastCall.data) = 1 /\ lastCall.namespace = "bar"
    /\ ~NameClash(1) /\ NamespaceClash(1) /\ lastErr = "NamespaceMismatch" /\ reqs = <<>>

\* a put whose only item declares another name was rejected
C13_WitnessName ==
    /\ lastCall.fn = "put" /\ Len(lastCall.data) = 1
    /\ NameClash(1) /\ lastErr = "NameMismatch" /\ reqs = <<>>

\* a write the server accepted
Written(j) == reqs[j].method \in {"POST", "PUT"} /\ reqs[j].status < 300

\* C14 as stated: every written body carries heritage = isopod and every
\* label of the object as passed, heritage included, with its value.
C14_HeritageAndAllLabelsKept ==
    lastCall.fn \in {"put", "put_yaml"} =>
        \A j \in 1..Len(reqs) : Written(j) =>
            LET before == lastCall.data[reqs[j].item].labels
                after == reqs[j].body.labels
            IN /\ "heritage" \in DOMAIN after /\ after["heritage"] = "isopod"
               /\ \A k \in DOMAIN before : k \in DOMAIN after /\ after[k] = before[k]

\* C14: every written body carries heritage = isopod, and every other label
\* of the object as passed is still there with its value.
C14_HeritageAndLabelsKept ==
    lastCall.fn \in {"put", "put_yaml"} =>
        \A j \in 1..Len(reqs) : Written(j) =>
            LET before == lastCall.data[reqs[j].item].labels
                after == reqs[j].body.labels
            IN /\ "heritage" \in DOMAIN after /\ after["heritage"] = "isopod"
               /\ \A k \in DOMAIN before \ {"heritage"} : k \in DOMAIN after /\ after[k] = before[k]

\* an object with a label of its own was written
C14_Witness ==
    /\ lastCall.fn = "put"
    /\ \E j \in 1..Len(reqs) :
         /\ Written(j)
         /\ "app" \in DOMAIN lastCall.data[reqs[j].item].labels
         /\ reqs[j].body.labels["app"] = "web"

\* an object that came with heritage = helm was written
C14_WitnessHeritage ==
    /\ lastCall.fn = "put"
    /\ \E j \in 1..Len(reqs) :
         /\ Written(j)
         /\ "heritage" \in DOMAIN lastCall.data[reqs[j].item].labels
         /\ lastCall.data[reqs[j].item].labels["heritage"] = "helm"
----------------------------------------------------------------------------
(* Claims about dry-run rendering and request order *)

\* C15: in dry-run every item of a kube.put / kube.put_yaml data list is
\* dealt with, one that follows a failed item included: each item is either
\* rendered as a diff or is the one whose failure the call reports.
C15_DryRunFailureDoesNotStop ==
    (dryRun /\ lastCall.fn \in {"put", "put_yaml"}) =>
        Len(out) + (IF lastErr # "" THEN 1 ELSE 0) >= Len(lastCall.data)
----------------------------------------------------------------------------
(* One addon callback as its cluster's API server observes it *)

\* the server's record after it observed the requests rs of builtin call n
Observed(log, n, rs) == log \o [j \in 1..Len(rs) |-> [call |-> n, item |-> rs[j].item]]

OrderObjects == {Svc("", "", 42, NoLabels), Pod("", "", NoLabels)}

OrderLists == NonEmptySeqsUpTo(OrderObjects, MaxItems)

OrderFaults == {NoFault, [kind |-> "write", lingers |-> FALSE]}

OrderRest == UNCHANGED <<storeVars, driverVars, loaderVars, blockVars, testVars, spinVars, ctxVars, gitVars>>

\* the script runs until a builtin fails
InScript == calls < MaxCalls /\ lastErr = ""

ScriptPut ==
    /\ InScript /\ DoPut(DriverArgs, OrderLists, OrderFaults)
    /\ seen' = Observed(seen, calls', reqs')
    /\ OrderRest

ScriptPutYaml ==
    /\ InScript /\ DoPutYaml({"bar"}, OrderLists, OrderFaults)
    /\ seen' = Observed(seen, calls', reqs')
    /\ OrderRest

ScriptDelete ==
    /\ InScript /\ DoDelete({"service", "pod"}, {"bar"}, {""}, {NoFault})
    /\ seen' = Observed(seen, calls', reqs')
    /\ OrderRest

InitOrder ==
    /\ dryRun \in BOOLEAN /\ force = FALSE /\ server \in {EmptyMap, DriverServer}
    /\ reqs = <<>> /\ out = <<>> /\ lastErr = "" /\ lastCall = NoCall /\ calls = 0
    /\ StoreIdle /\ DriverIdle /\ LoaderIdle /\ BlockIdle /\ OrderIdle /\ TestIdle /\ SpinIdle
    /\ CtxIdle /\ GitIdle

NextOrder == ScriptPut \/ ScriptPutYaml \/ ScriptDelete

SpecOrder == InitOrder /\ [][NextOrder]_vars

\* C16: the API server observes the requests of an addon callback in the
\* order of the script's builtin calls and, within one kube.put /
\* kube.put_yaml, in the order of the data items: no request of a later call
\* or item comes before a request of an earlier one, and the requests of the
\* call just made are the last ones observed.
C16_RequestsInCallOrder ==
    /\ \A a, b \in 1..Len(seen) :
         a < b => \/ seen[a].call < seen[b].call
                  \/ seen[a].call = seen[b].call /\ seen[a].item <= seen[b].item
    /\ \A a \in 1..Len(seen) : seen[a].call \in 1..calls
    /\ Len(seen) >= Len(reqs)
    /\ \A j \in 1..Len(reqs) :
         seen[Len(seen) - Len(reqs) + j] = [call |-> calls, item |-> reqs[j].item]

\* two calls were observed, the first with requests for two items
C16_Witness ==
    /\ calls = 2 /\ lastCall.fn = "put"
    /\ \E a, b, c \in 1..Len(seen) :
         /\ a < b /\ b < c
         /\ seen[a] = [call |-> 1, item |-> 1]
         /\ seen[b] = [call |-> 1, item |-> 2]
         /\ seen[c].call = 2
----------------------------------------------------------------------------
(* Claims about the rollout store after completion *)

\* C17: a PutAddonRun for a rollout that a successful CompleteRollout has
\* made live fails.
C17_NoRunAfterComplete ==
    (storeOp.op = "put" /\ storeOp.id \in storeOp.was) => storeOp.err # ""
-----------------------------------------------------------------------------
(* Unit test runner: runtime.go isTest, search, exec, RunUnitTests.        *)
(* A path is a sequence of segments; a segment is a name split into its    *)
(* stem and its tail, so that a suffix test on the name is a test on the   *)
(* tail. Collected files are kept as a set: their order is not modelled.   *)

MaxTests == 2

Seg(stem, tail) == [stem |-> stem, tail |-> tail]
Dot  == Seg(".", "")
Dots == Seg("...", "")

\* the working directory and the files below it
Cwd == <<Seg("w", "")>>

TestFS ==
    LET sub  == Cwd \o <<Seg("sub", "")>>
        deep == sub \o <<Seg("deep", "")>>
    IN  (Cwd :> "dir")
     @@ (Cwd \o <<Seg("a", "_test.ipd")>> :> "file")
     @@ (Cwd \o <<Seg("lib", ".ipd")>> :> "file")
     @@ (Cwd \o <<Seg("d", "_test.ipd")>> :> "dir")
     @@ (sub :> "dir")
     @@ (sub \o <<Seg("b", "_test.ipd")>> :> "file")
     @@ (deep :> "dir")
     @@ (deep \o <<Seg("c", "_test.ipd")>> :> "file")

\* path arguments of the test command, relative to the working directory
TestPaths ==
    { <<>>,
      <<Dot, Dots>>,
      <<Seg("sub", ""), Dots>>,
      <<Seg("sub", "")>>,
      <<Seg("a", "_test.ipd")>>,
      <<Dot, Seg("sub", ""), Seg("b", "_test.ipd")>>,
      <<Seg("lib", ".ipd")>>,
      <<Seg("d", "_test.ipd")>>,
      <<Seg("missing", "")>>,
      <<Seg("missing", ""), Dots>> }

\* strings.HasSuffix(name, "_test.ipd")
isTest(name) == name.tail = "_test.ipd"

\* filepath.Abs of a relative path: joined to the working directory, cleaned
Abs(path) == Cwd \o SelectSeq(path, LAMBDA s : s # Dot)

IsUnder(root, q) == Len(q) >= Len(root) /\ SubSeq(q, 1, Len(root)) = root

SearchResult(found, err) == [out |-> found, err |-> err]

search(path) ==
    LET p0 == IF path = <<>> THEN <<Dot, Dots>> ELSE path
        p  == Abs(p0)
        base == p[Len(p)]
    IN  IF base = Dots
        THEN \* filepath.Walk from the directory before "/..."
             LET root == SubSeq(p, 1, Len(p) - 1)
             IN  IF root \notin DOMAIN TestFS
                 THEN SearchResult({}, "no such file or directory")
                 ELSE SearchResult({q \in DOMAIN TestFS :
                                      /\ IsUnder(root, q)
                                      /\ TestFS[q] = "file"
                                      /\ isTest(q[Len(q)])}, "")
        ELSE IF p \notin DOMAIN TestFS
        THEN SearchResult({}, "no such file or directory")
        ELSE IF TestFS[p] = "dir"
        THEN \* Readdir: the entries of the directory itself
             SearchResult({q \in DOMAIN TestFS :
                             /\ Len(q) = Len(p) + 1
                             /\ IsUnder(p, q)
                             /\ TestFS[q] = "file"
                             /\ isTest(q[Len(q)])}, "")
        ELSE IF isTest(base)
        THEN \* filepath.Join(path, info.Name())
             SearchResult({p \o <<base>>}, "")
        ELSE SearchResult({}, "")

\* names of globals: prefix "test_" or none
GlobalName(prefix, rest) == [prefix |-> prefix, rest |-> rest]
TestNames == {GlobalName("test_", i) : i \in 1..MaxTests}
Helper    == GlobalName("", 0)
\* what a global is: a function that passes, one whose assertion fails, one
\* that fails with another error, or a value that is not callable
Kinds     == {"pass", "fail", "error", "value"}
Callable(kind) == kind \in {"pass", "fail", "error"}
TestGlobals ==
    {g \in [TestNames \cup {Helper} -> Kinds] : g[Helper] = "pass"}

\* strings.HasPrefix(name, "test_")
hasTestPrefix(name) == name.prefix = "test_"

TestResult(path, pass, err) == [Path |-> path, Pass |-> pass, err |-> err]

TestRest == UNCHANGED <<kubeVars, storeVars, driverVars, loaderVars, blockVars, orderVars, spinVars, ctxVars, gitVars>>

\* RunUnitTests: ts, err := search(path)
Search ==
    /\ tpc = "start"
    /\ LET r == search(tpath)
       IN  IF r.err # ""
           THEN /\ tpc' = "done" /\ tstatus' = "error"
                /\ UNCHANGED tfiles
           ELSE /\ tfiles' = r.out /\ tpc' = "collected"
                /\ UNCHANGED tstatus
    /\ UNCHANGED <<tpath, tglobals, tcur, todo, invoked, results>>
    /\ TestRest

\* exec: ioutil.ReadFile, starlark.ExecFile of the next collected file
ExecBegin ==
    /\ tpc = "collected"
    /\ \E t \in tfiles :
         /\ t \notin {r.Path : r \in results}
         /\ tcur' = t
         /\ IF t \in DOMAIN TestFS /\ TestFS[t] = "file"
            THEN /\ todo' = DOMAIN tglobals
                 /\ invoked' = (t :> [n \in DOMAIN tglobals |-> 0]) @@ invoked
                 /\ tpc' = "ranging"
                 /\ UNCHANGED results
            ELSE \* the read fails; RunUnitTests records a failed result
                 /\ results' = results \cup {TestResult(t, FALSE, "read")}
                 /\ UNCHANGED <<todo, invoked, tpc>>
    /\ UNCHANGED <<tpath, tglobals, tfiles, tstatus>>
    /\ TestRest

\* one iteration of "for name, v := range globals"; the map order is any order
RangeStep ==
    /\ tpc = "ranging"
    /\ \E name \in todo :
         LET kind == tglobals[name]
             called == [invoked EXCEPT ![tcur][name] = @ + 1]
         IN  IF ~hasTestPrefix(name)
             THEN /\ todo' = todo \ {name}
                  /\ UNCHANGED <<invoked, results, tpc>>
             ELSE IF ~Callable(kind)
             THEN \* "must be a function": exec returns the error
                  /\ results' = results \cup {TestResult(tcur, FALSE, "not a function")}
                  /\ tpc' = "collected"
                  /\ UNCHANGED <<todo, invoked>>
             ELSE IF kind = "pass"
             THEN /\ invoked' = called
                  /\ todo' = todo \ {name}
                  /\ UNCHANGED <<results, tpc>>
             ELSE \* a failed assertion returns the failing result, any other
                  \* error returns the error: both leave the loop
                  /\ invoked' = called
                  /\ results' = results \cup
                        {TestResult(tcur, FALSE, IF kind = "fail" THEN "assert" ELSE "error")}
                  /\ tpc' = "collected"
                  /\ UNCHANGED todo
    /\ UNCHANGED <<tpath, tglobals, tfiles, tcur, tstatus>>
    /\ TestRest

\* the range loop is over: the file passes
RangeEnd ==
    /\ tpc = "ranging" /\ todo = {}
    /\ results' = results \cup {TestResult(tcur, TRUE, "")}
    /\ tpc' = "collected"
    /\ UNCHANGED <<tpath, tglobals, tfiles, tcur, todo, invoked, tstatus>>
    /\ TestRest

\* every collected file has a result: RunUnitTests returns
Report ==
    /\ tpc = "collected"
    /\ tfiles = {r.Path : r \in results}
    /\ tstatus' = IF \A r \in results : r.Pass THEN "pass" ELSE "fail"
    /\ tpc' = "done"
    /\ UNCHANGED <<tpath, tglobals, tfiles, tcur, todo, invoked, results>>
    /\ TestRest

TestInit ==
    /\ tpath \in TestPaths /\ tglobals \in TestGlobals
    /\ tfiles = {} /\ tpc = "start" /\ tcur = <<>> /\ todo = {}
    /\ invoked = <<>> /\ results = {} /\ tstatus = "none"

InitTest ==
    /\ KubeIdle /\ StoreIdle /\ DriverIdle /\ LoaderIdle /\ BlockIdle /\ OrderIdle
    /\ TestInit /\ SpinIdle /\ CtxIdle /\ GitIdle

NextTest == Search \/ ExecBegin \/ RangeStep \/ RangeEnd \/ Report

SpecTest == InitTest /\ [][NextTest]_vars

\* the file whose globals were ranged over has its result
Executed(t) == t \in DOMAIN invoked /\ t \in {r.Path : r \in results}

\* C18: once a test file has been executed, every callable global of it whose
\* name begins with test_ has been invoked exactly once, whatever the other
\* test functions did and in whatever order they were visited.
C18_EveryTestInvokedOnce ==
    \A t \in DOMAIN invoked :
        Executed(t) =>
            \A name \in DOMAIN tglobals :
                (hasTestPrefix(name) /\ Callable(tglobals[name])) => invoked[t][name] = 1

\* the test path names one existing file that matches the pattern
SingleTestFile ==
    /\ tpath # <<>> /\ Abs(tpath) \in DOMAIN TestFS
    /\ TestFS[Abs(tpath)] = "file" /\ isTest(tpath[Len(tpath)])

\* C19: when the test path names a single existing file matching the test
\* pattern, the collected test files are exactly that file's own path.
C19_SingleFileCollected ==
    (SingleTestFile /\ tpc \in {"collected", "ranging", "done"}) => tfiles = {Abs(tpath)}
-----------------------------------------------------------------------------
(* Addon install with the status spinner: runtime.go spinMsg and           *)
(* runCommand's installAddonFn. Each install makes its own unbuffered      *)
(* errCh and starts its own spinMsg goroutine; spinners[k] is the          *)
(* goroutine of the k-th install, and errCh of that install connects only  *)
(* the installing goroutine and spinners[k].                               *)

MaxInstalls == 2
MaxFrames == 2

\* go spinMsg(a.Name, errCh): the goroutine enters its select with a new timer
NewSpinner == [state |-> "select", timer |-> "armed", frames |-> 0,
               got |-> 0, err |-> "", line |-> ""]

\* spinMsg, case err := <-errCh, without the return: the loop goes on
spinMsgGoesOn(sp) ==
    [sp EXCEPT !.state = "select", !.timer = "armed",
               !.line = IF sp.err # "" THEN "err" ELSE "done"]

\* spinMsg, case err := <-errCh: print the outcome and return
spinMsgDone(sp) ==
    [sp EXCEPT !.state = "exited",
               !.line = IF sp.err # "" THEN "err" ELSE "done"]

SpinRest == UNCHANGED <<kubeVars, storeVars, driverVars, loaderVars, blockVars, orderVars, testVars, ctxVars, gitVars>>

\* installAddonFn up to the call of a.Install
InstallStart ==
    /\ ipc = "idle" /\ installs < MaxInstalls
    /\ ipc' = "installing"
    /\ spinners' = IF noSpin THEN spinners ELSE Append(spinners, NewSpinner)
    /\ UNCHANGED <<noSpin, ierr, installs>>
    /\ SpinRest

\* a.Install(ctx) returns; with the spinner, the goroutine reaches errCh <- err
InstallReturns ==
    /\ ipc = "installing"
    /\ \E e \in {"", "install failed"} : ierr' = e
    /\ ipc' = IF noSpin THEN "returned" ELSE "sending"
    /\ UNCHANGED <<noSpin, installs, spinners>>
    /\ SpinRest

\* the 100ms of a spinner's time.After elapse
SpinTimer ==
    /\ \E k \in 1..Len(spinners) :
         /\ spinners[k].state = "select" /\ spinners[k].timer = "armed"
         /\ spinners' = [spinners EXCEPT ![k].timer = "fired"]
    /\ UNCHANGED <<noSpin, ipc, ierr, installs>>
    /\ SpinRest

\* spinMsg, case <-time.After: print the next frame, select again
SpinTick ==
    /\ \E k \in 1..Len(spinners) :
         /\ spinners[k].state = "select" /\ spinners[k].timer = "fired"
         /\ spinners[k].frames < MaxFrames
         /\ spinners' = [spinners EXCEPT ![k].timer = "armed",
                                         ![k].frames = @ + 1,
                                         ![k].line = "frame"]
    /\ UNCHANGED <<noSpin, ipc, ierr, installs>>
    /\ SpinRest

\* errCh is unbuffered: the send and the receive happen together, between
\* the installing goroutine and the spinner of this install
SpinRecv ==
    /\ ipc = "sending"
    /\ LET k == Len(spinners)
       IN  /\ spinners[k].state = "select"
           /\ spinners' = [spinners EXCEPT ![k].state = "received",
                                           ![k].got = @ + 1,
                                           ![k].err = ierr]
    /\ ipc' = "returned"
    /\ UNCHANGED <<noSpin, ierr, installs>>
    /\ SpinRest

\* the spinner prints the outcome and leaves spinMsg
SpinReturn ==
    /\ \E k \in 1..Len(spinners) :
         /\ spinners[k].state = "received"
         /\ spinners' = [spinners EXCEPT ![k] = spinMsgDone(spinners[k])]
    /\ UNCHANGED <<noSpin, ipc, ierr, installs>>
    /\ SpinRest

\* installAddonFn returns err; runUntilErr goes to the next addon or stops
InstallDone ==
    /\ ipc = "returned"
    /\ installs' = installs + 1
    /\ ipc' = IF ierr # "" THEN "stopped" ELSE "idle"
    /\ UNCHANGED <<noSpin, ierr, spinners>>
    /\ SpinRest

SpinInit ==
    /\ noSpin \in BOOLEAN /\ ipc = "idle" /\ ierr = "" /\ installs = 0
    /\ spinners = <<>>

InitSpin ==
    /\ KubeIdle /\ StoreIdle /\ DriverIdle /\ LoaderIdle /\ BlockIdle /\ OrderIdle
    /\ TestIdle /\ SpinInit /\ CtxIdle /\ GitIdle

NextSpin ==
    \/ InstallStart \/ InstallReturns \/ SpinTimer \/ SpinTick
    \/ SpinRecv \/ SpinReturn \/ InstallDone

\* Both goroutines are scheduled: a step of either that stays possible is
\* taken. The receive stays possible while the sender waits, because the
\* spinner is back in its select after every frame.
SpecSpin ==
    /\ InitSpin /\ [][NextSpin]_vars
    /\ WF_vars(SpinRecv) /\ WF_vars(SpinReturn) /\ WF_vars(InstallDone)

\* the install whose result has been sent, and its spinner
ResultSent == ~noSpin /\ ipc \in {"returned"}

ReceivedOnce ==
    /\ \A k \in 1..Len(spinners) : spinners[k].got <= 1
    /\ ResultSent => /\ spinners[Len(spinners)].got = 1
                     /\ spinners[Len(spinners)].err = ierr
    \* a spinner of an earlier install has had its result
    /\ \A k \in 1..(Len(spinners) - 1) : spinners[k].got = 1

\* C20: with the spinner enabled, the spinner goroutine of an install
\* receives the install's result exactly once and then terminates, and the
\* installing goroutine's send of the result always completes.
C20_SpinnerGetsResultAndExits ==
    /\ []ReceivedOnce
    /\ (ipc = "sending") ~> (ipc = "returned")
    /\ \A k \in 1..MaxInstalls :
         (Len(spinners) >= k /\ spinners[k].got = 1)
             ~> (Len(spinners) >= k /\ spinners[k].state = "exited")

\* the second install's send has completed after the spinner printed frames,
\* and the first install's spinner is gone
C20_Witness ==
    /\ ResultSent /\ Len(spinners) = 2
    /\ spinners[1].state = "exited" /\ spinners[1].got = 1
    /\ spinners[2].frames > 0 /\ spinners[2].got = 1

\* a failed install: the spinner has the error and has left
C20_WitnessError ==
    /\ ~noSpin /\ ipc = "stopped" /\ ierr # ""
    /\ spinners[Len(spinners)].state = "exited"
    /\ spinners[Len(spinners)].err = ierr
-----------------------------------------------------------------------------
(* Pacing of the probes of kube.get / kube.exists *)

\* const waitRetryInterval = 1 * time.Second, in ticks
waitRetryInterval == 1

\* C21: while kube.get / kube.exists waits, two consecutive existence probes
\* are never less than one retry interval apart.
C21_ProbesOneIntervalApart ==
    IsGet =>
        \A i \in 2..Len(probeTimes) :
            probeTimes[i] - probeTimes[i - 1] >= waitRetryInterval
-----------------------------------------------------------------------------
(* Force on every write path *)

\* C22: with force set, neither kube.put nor kube.put_yaml fails with an
\* immutable-update error: the update is recovered by delete and create.
C22_ForceRecoversEveryPath ==
    (force /\ lastCall.fn \in {"put", "put_yaml"}) => ~IsImmutable(lastErr)
-----------------------------------------------------------------------------
(* The healthCheckNodePort that an update writes *)

\* request q of the last call overwrote a live Service with item q.item; of a
\* put_yaml call only the first document is looked at, whose name and
\* namespace no earlier document can have changed
ServiceUpdate(q) ==
    /\ q.method = "PUT" /\ q.status < 300 /\ q.body.kind = "Service"
    /\ q.item \in 1..Len(lastCall.data)
    /\ lastCall.fn = "put" \/ q.item = 1

\* C23: an update of a Service whose desired healthCheckNodePort is non-zero
\* and does not clash with the live one writes the desired value; the live
\* value is copied only when the desired one is 0.
C23_DesiredPortWritten ==
    lastCall.fn \in {"put", "put_yaml"} =>
        \A k \in 1..Len(reqs) :
            (ServiceUpdate(reqs[k]) /\ lastCall.data[reqs[k].item].port # 0)
                => reqs[k].body.port = lastCall.data[reqs[k].item].port
-----------------------------------------------------------------------------
(* Loads that fail before the module is evaluated *)

\* GetLoaded: module string -> source text (here: the file the text came
\* from); v.data of a nil entry is a nil pointer dereference
GetLoaded(ld) ==
    [panic |-> \E m \in DOMAIN ld : ld[m] = NilModule,
     modules |-> [m \in {x \in DOMAIN ld : ld[x] # NilModule} |-> ld[m].file]]

\* C24: a load that failed before its module was evaluated leaves no
\* in-progress mark: the cycle error is reported only for a module that is
\* being evaluated, and when no load is running the listing of the loaded
\* modules meets no in-progress entry.
C24_EarlyFailureLeavesNoMark ==
    /\ lastLoad.kind = "cycle" => lastLoad.inProgress
    /\ stack = <<>> => ~GetLoaded(loaded).panic
-----------------------------------------------------------------------------
(* One module string, several files *)

\* C25: the globals a load returns are those of the file the load resolves
\* to, also when the same relative module string is used by modules in
\* different directories.
C25_GlobalsOfTheResolvedFile ==
    lastLoad.kind \in {"hit", "exec"} => lastLoad.source = lastLoad.wanted
-----------------------------------------------------------------------------
(* A rejected PutAddonRun *)

RunExists == "addon run already exists"

\* the step is a PutAddonRun on a rollout that is not completed, rejected
\* because the rollout has a run of the addon
RejectedPut ==
    /\ storeOp'.op = "put" /\ storeOp'.err = RunExists
    /\ storeOp'.id \notin storeOp'.was

\* C26: a PutAddonRun rejected because the rollout already records a run for
\* the addon leaves the store as it was: no run record is created and the
\* rollout record is not modified.
C26_RejectedPutLeavesStore == [][RejectedPut => cms' = cms]_vars
-----------------------------------------------------------------------------
(* Name and namespace of the documents of one kube.put_yaml call *)

\* the resource document i of the last call names by the call's arguments
\* and its own metadata
OwnTarget(i) ==
    LET nn == nameAndNamespace(lastCall.name, lastCall.namespace, lastCall.data[i])
    IN newResourceForKind(nn.name, nn.namespace, "", lastCall.data[i].kind)

\* C28: in a kube.put_yaml call the name and namespace applied to a document
\* depend only on the call's arguments and on the document's own metadata:
\* every document is probed at the path those give.
C28_DocumentsAreIndependent ==
    lastCall.fn = "put_yaml" =>
        \A k \in 1..Len(reqs) :
            (reqs[k].method = "GET" /\ reqs[k].item \in 1..Len(lastCall.data)) =>
                /\ OwnTarget(reqs[k].item).err = ""
                /\ reqs[k].uri = PathWithName(OwnTarget(reqs[k].item).r)
-----------------------------------------------------------------------------
(* Addon contexts: NewAddonBuiltin, Addon.Install / Remove, SkyCtx.SetField *)
(* and AbstractKubeVendor.AddonSkyCtx. A starlark.StringDict is a Go map,   *)
(* so it is held by reference: attrMaps[ref] is the map behind ref.         *)

MaxCtxAddons == 2

\* the map inside the vendor's own SkyCtx, which AddonSkyCtx hands out
ClusterRef == 1

ClusterAttrs == MapPut(EmptyMap, "env", "test")

\* a dict literal passed as the addon's context
DictAttrs == MapPut(EmptyMap, "env", "dict")

\* what a callback may assign: ctx.<key> = <val>
CtxWrites ==
    {[key |-> "", val |-> ""], [key |-> "note", val |-> "set"], [key |-> "env", val |-> "prod"]}

\* the addon builtin: a ctx argument is kept as its own Attrs map, a dict is
\* copied into a new map, no argument gives a new empty map
NewAddonBuiltin(maps, name, ctxKind, version) ==
    LET maps1 == IF ctxKind = "ctx" THEN maps
                 ELSE IF ctxKind = "dict" THEN Append(maps, DictAttrs)
                 ELSE Append(maps, EmptyMap)
        ref == IF ctxKind = "ctx" THEN ClusterRef ELSE Len(maps1)
    IN [maps |-> maps1,
        addon |-> [Name |-> name, ctx |-> ref, given |-> maps1[ref],
                   version |-> version]]

\* SkyCtx.SetField: c.Attrs[name] = v
SetField(attrs, name, v) == MapPut(attrs, name, v)

\* Addon.Install / Addon.Remove: the SkyCtx wraps a.ctx itself; addon_version
\* is set in it when the module has a version; then the callback runs and may
\* assign a field
RunCallback(maps, a, w) ==
    LET m0 == maps[a.ctx]
        m1 == IF a.version # "" THEN SetField(m0, "addon_version", a.version) ELSE m0
        m2 == IF w.key # "" THEN SetField(m1, w.key, w.val) ELSE m1
    IN [maps |-> [maps EXCEPT ![a.ctx] = m2], saw |-> m1]

CtxRest == UNCHANGED <<kubeVars, storeVars, driverVars, loaderVars, blockVars, orderVars, testVars, spinVars, gitVars>>

\* the addons function of the main script constructs one more addon
MakeAddon ==
    /\ runs = 0 /\ Len(addonObjs) < MaxCtxAddons
    /\ \E ctxKind \in {"ctx", "dict", "none"}, version \in {"", "v1"} :
         LET r == NewAddonBuiltin(attrMaps, Len(addonObjs) + 1, ctxKind, version)
         IN /\ attrMaps' = r.maps
            /\ addonObjs' = Append(addonObjs, r.addon)
    /\ UNCHANGED <<sawCtx, runs>>
    /\ CtxRest

\* runCommand runs the callback of the next addon of the list
RunAddon ==
    /\ runs < Len(addonObjs)
    /\ \E w \in CtxWrites :
         LET k == runs + 1
             r == RunCallback(attrMaps, addonObjs[k], w)
         IN /\ attrMaps' = r.maps
            /\ sawCtx' = [addon |-> k, attrs |-> r.saw]
    /\ runs' = runs + 1
    /\ UNCHANGED addonObjs
    /\ CtxRest

CtxInit ==
    /\ attrMaps = <<ClusterAttrs>> /\ addonObjs = <<>> /\ sawCtx = [addon |-> 0] /\ runs = 0

InitCtx ==
    /\ KubeIdle /\ StoreIdle /\ DriverIdle /\ LoaderIdle /\ BlockIdle /\ OrderIdle
    /\ TestIdle /\ SpinIdle /\ CtxInit /\ GitIdle

NextCtx == MakeAddon \/ RunAddon

SpecCtx == InitCtx /\ [][NextCtx]_vars

\* what the addon was given, with its own addon_version
OwnAttrs(a) ==
    IF a.version # "" THEN MapPut(a.given, "addon_version", a.version) ELSE a.given

\* C27: an addon's callback sees exactly the attributes the addon was
\* constructed with (and the addon_version injected for it): what another
\* addon's callback wrote, or the version injected for another addon, is not
\* among them, and the cluster context they were derived from is unchanged.
C27_ContextIsPerAddon ==
    /\ sawCtx.addon # 0 => sawCtx.attrs = OwnAttrs(addonObjs[sawCtx.addon])
    /\ attrMaps[ClusterRef] = ClusterAttrs
-----------------------------------------------------------------------------
(* git_repository dependencies: GitRepo.Fetch and its shell script.         *)
(* The state of a dependency's local directory is one of                    *)
(*   absent  - no directory                                                 *)
(*   empty   - made by mkdir, nothing in it                                 *)
(*   repo    - git init and remote add done, nothing fetched                *)
(*   fetched - history fetched, the commit not checked out                  *)
(*   checked - the commit is checked out                                    *)

MaxFetches == 3

GitDeps == {"dep", "other"}

DirStates == {"absent", "empty", "repo", "fetched", "checked"}

\* the command of the script that fails in one run (the script runs under
\* set -e, so the first failing command ends it)
FailPoints == {"none", "mkdir", "init", "fetch", "checkout"}

\* gitCloneShellScript run by Shellf: the directory afterwards and the
\* script's exit status
gitCloneShellScript(dir, fail) ==
    IF dir # "absent" THEN [dir |-> dir, exit |-> 0]
    ELSE IF fail = "mkdir" THEN [dir |-> "absent", exit |-> 1]
    ELSE IF fail = "init" THEN [dir |-> "empty", exit |-> 1]
    ELSE IF fail = "fetch" THEN [dir |-> "repo", exit |-> 1]
    ELSE IF fail = "checkout" THEN [dir |-> "fetched", exit |-> 1]
    ELSE [dir |-> "checked", exit |-> 0]

\* GitRepo.Fetch: an error if the script failed
GitFetch(dir, fail) ==
    LET r == gitCloneShellScript(dir, fail)
    IN [dir |-> r.dir, err |-> IF r.exit # 0 THEN "failed to clone git repo" ELSE ""]

GitRest == UNCHANGED <<kubeVars, storeVars, driverVars, loaderVars, blockVars, orderVars, testVars, spinVars, ctxVars>>

\* anchoredLoadFn: dep.Fetch() for a remote module of dependency dep
Fetch ==
    /\ fetchCount < MaxFetches
    /\ \E dep \in GitDeps, fail \in FailPoints :
         LET r == GitFetch(localDir[dep], fail)
         IN /\ localDir' = [localDir EXCEPT ![dep] = r.dir]
            /\ fetchOp' = [dep |-> dep, err |-> r.err, fail |-> fail, was |-> localDir[dep]]
    /\ fetchCount' = fetchCount + 1
    /\ GitRest

\* the workspace is new, or holds checkouts of earlier runs
GitInit ==
    /\ localDir \in [GitDeps -> {"absent", "checked"}]
    /\ fetchOp = [dep |-> ""] /\ fetchCount = 0

InitGit ==
    /\ KubeIdle /\ StoreIdle /\ DriverIdle /\ LoaderIdle /\ BlockIdle /\ OrderIdle
    /\ TestIdle /\ SpinIdle /\ CtxIdle /\ GitInit

NextGit == Fetch

SpecGit == InitGit /\ [][NextGit]_vars

\* C29: a Fetch that reports success leaves the requested commit checked out
\* in the dependency's local directory, also after an earlier Fetch of the
\* same dependency failed part-way.
C29_SuccessMeansCheckedOut ==
    (fetchOp.dep # "" /\ fetchOp.err = "") => localDir[fetchOp.dep] = "checked"
-----------------------------------------------------------------------------
(* The fake API server of the unit-test driver: fakeKube.ServeHTTP over the *)
(* map h.m, started by NewFake. server is h.m, reqs the requests served.    *)

MaxRequests == 3

FakeObj(kind, name, cert) == [kind |-> kind, name |-> name, cert |-> cert]

CmURI == <<"/api", "v1", "namespaces", "kube-system", "configmaps",
           "extension-apiserver-authentication">>

SvcColl == <<"/api", "v1", "namespaces", "bar", "services">>

CsrColl == <<"/apis", "certificates.k8s.io", "v1", "certificatesigningrequests">>

\* NewFake: the map starts with one ConfigMap, which carries no name
FakeStart == MapPut(EmptyMap, CmURI, FakeObj("ConfigMap", "", ""))

\* the objects the tests send, and the paths of their requests
FakeSvc == FakeObj("Service", "foo", "")

FakeCsr == FakeObj("CertificateSigningRequest", "foo", "")

FakePosts == {[uri |-> SvcColl, body |-> FakeSvc], [uri |-> CsrColl, body |-> FakeCsr]}

FakePuts ==
    {[uri |-> Append(SvcColl, "foo"), body |-> FakeSvc],
     [uri |-> Append(Append(CsrColl, "foo"), "approval"), body |-> FakeCsr],
     [uri |-> Append(Append(SvcColl, "foo"), "approval"), body |-> FakeSvc]}

FakePaths == {CmURI, Append(SvcColl, "foo"), Append(CsrColl, "foo")}

\* strings.HasSuffix(r.URL.Path, "/approval") and strings.TrimSuffix
IsApproval(p) == p[Len(p)] = "approval"

TrimApproval(p) == SubSeq(p, 1, Len(p) - 1)

Answer(m, status) == [m |-> m, status |-> status]

\* fakeKube.ServeHTTP
ServeHTTP(m, method, p, body) ==
    IF method = "POST"
    THEN Answer(MapPut(m, Append(p, body.name), body), 200)
    ELSE IF method = "PUT"
    THEN IF IsApproval(p)
         THEN LET parent == TrimApproval(p)
              IN IF parent \notin DOMAIN m THEN Answer(m, 405)
                 ELSE IF m[parent].kind # "CertificateSigningRequest" THEN Answer(m, 400)
                 ELSE Answer(MapPut(MapPut(m, parent, [m[parent] EXCEPT !.cert = "cert"]), p, body),
                             200)
         ELSE IF p \notin DOMAIN m THEN Answer(m, 405)
         ELSE Answer(MapPut(m, p, body), 200)
    ELSE IF method = "GET"
    THEN IF p \notin DOMAIN m THEN Answer(m, 404) ELSE Answer(m, 200)
    ELSE IF method = "DELETE"
    THEN \* answers with a Status naming the object; h.m is not touched
         IF p \notin DOMAIN m THEN Answer(m, 404) ELSE Answer(m, 200)
    ELSE Answer(m, 405)

\* one request is served
Serve(method, p, body) ==
    /\ LET r == ServeHTTP(server, method, p, body)
       IN /\ server' = r.m
          /\ reqs' = Append(reqs, Req(method, p, "", body, calls + 1, r.status))
    /\ calls' = calls + 1
    /\ UNCHANGED <<dryRun, force, out, lastErr, lastCall>>
    /\ UNCHANGED <<storeVars, driverVars, loaderVars, restVars>>

FakePost == calls < MaxRequests /\ \E q \in FakePosts : Serve("POST", q.uri, q.body)

FakePut == calls < MaxRequests /\ \E q \in FakePuts : Serve("PUT", q.uri, q.body)

FakeGet == calls < MaxRequests /\ \E p \in FakePaths : Serve("GET", p, NoObj)

FakeDelete == calls < MaxRequests /\ \E p \in FakePaths : Serve("DELETE", p, NoObj)

FakeOther == calls < MaxRequests /\ Serve("PATCH", CmURI, NoObj)

InitFake ==
    /\ dryRun = FALSE /\ force = FALSE /\ server = FakeStart /\ reqs = <<>>
    /\ out = <<>> /\ lastErr = "" /\ lastCall = NoCall /\ calls = 0
    /\ StoreIdle /\ DriverIdle /\ LoaderIdle /\ RestIdle

NextFake == FakePost \/ FakePut \/ FakeGet \/ FakeDelete \/ FakeOther

SpecFake == InitFake /\ [][NextFake]_vars

\* request q creates the object at path p
Creates(q, p) ==
    /\ q.method = "POST" /\ q.status < 300
    /\ Append(q.uri, q.body.name) = p

\* C30: after a successful DELETE of an object, a GET of the same path is
\* answered 404 until the object is POSTed again.
C30_DeletedIsGone ==
    \A i, j \in 1..Len(reqs) :
        ( /\ i < j
          /\ reqs[i].method = "DELETE" /\ reqs[i].status = 200
          /\ reqs[j].method = "GET" /\ reqs[j].uri = reqs[i].uri
          /\ \A k \in (i + 1)..(j - 1) : ~Creates(reqs[k], reqs[i].uri) )
        => reqs[j].status = 404

====
